---- MODULE Spec2Model ----
(***************************************************************************)
(* The store of src/src/types/store.ts (createStore): the state, the       *)
(* reducer, the two listener arrays, the dispatching flag and the          *)
(* operations getState, subscribe, unsubscribe, dispatch, replaceReducer.  *)
(*                                                                         *)
(* The program is single threaded and synchronous; what interleaves is     *)
(* user code (the reducer, the listeners, the code outside the store)      *)
(* calling back into the store.  A state of the model is a point where     *)
(* user code runs: outside the store (stack = << >>), inside the reducer   *)
(* of the innermost dispatch (pc = "reducing"), or inside a listener the   *)
(* innermost dispatch invoked (pc = "inListener").  One action is one call *)
(* user code makes, or its return or throw, together with all the store    *)
(* code that runs until user code runs again.                              *)
(***************************************************************************)
EXTENDS Integers, Sequences, FiniteSets, TLC

VARIABLES
  currentReducer,    \* store.ts:383
  currentState,      \* store.ts:384
  currentListeners,  \* store.ts:385  an array reference, or Null
  nextListeners,     \* store.ts:386  an array reference
  isDispatching,     \* store.ts:387
  heap,              \* the listener arrays, by reference
  subs,              \* one closure per subscribe call: listener, isSubscribed
  stack,             \* the dispatch calls in progress, innermost last
  preloadedState,    \* the argument createStore was given (store.ts:341)
  log,               \* the actions whose reducer call returned and the entries the
                     \* recording middlewares made, oldest first
  nDispatched,       \* reducer calls made so far
  mode,              \* what the user code of this run does: see Bounds
  args,              \* the arguments of the createStore call (store.ts:340-342)
  composition,       \* part_001: a compose call, its result and a call of that
  combined,          \* combineReducers.ts: the closure combineReducers returned
                     \* and the last call of it
  ev                 \* the last call user code made, or the last callback the store made

vars == <<currentReducer, currentState, currentListeners, nextListeners,
          isDispatching, heap, subs, stack, preloadedState, log, nDispatched, mode,
          args, composition, combined, ev>>

storeVars == <<currentReducer, currentState, currentListeners, nextListeners,
               isDispatching, heap, subs>>

\* What no operation of the store writes after construction, and the run's kind.
fixedVars == <<preloadedState, mode, args, composition, combined>>

-----------------------------------------------------------------------------
(* Bounds *)

\* The user code of a run is of one of five kinds, which differ in the calls
\* it makes and in how long the run is followed:
\*   "nest"   subscribes and unsubscribes one listener function and dispatches
\*            INC, also from listeners, which may throw;
\*   "reduce" dispatches INC and replaces the reducer, also from listeners,
\*            with reducers and listeners that may throw;
\*   "lists"  subscribes and unsubscribes two listener functions around the
\*            dispatch of an action that leaves the state alone;
\*   "snap"   does the same with fewer subscriptions and more dispatches;
\*   "guard"  makes every call with every kind of argument, the rejected
\*            ones included;
\*   "replace" dispatches INC and replaces the reducer, each time by the one
\*            that is not the current one, also from reducers and listeners;
\*   "create" is followed from the call of createStore on, with either
\*            reducer, and then subscribes, unsubscribes and dispatches INC;
\*   "mw"     uses a store enhanced with applyMiddleware(A, B, C), three
\*            middlewares that record their entry, call next(action) and
\*            record their exit; it subscribes and dispatches plain actions,
\*            also from listeners;
\*   "mw0"    does the same with a store enhanced with applyMiddleware();
\*   "thunk"  uses applyMiddleware(A, T, C) where T calls an action that is a
\*            function with api.dispatch (the function dispatches INC once)
\*            and forwards any other action; listeners may throw;
\*   "setup"  is followed from the call of the enhancer applyMiddleware(A, B)
\*            on; either middleware may call api.dispatch while it is set up,
\*            and may catch what that throws;
\*   "combine" calls combineReducers with an object of two entries, then the
\*            function it returned, directly or through createStore;
\*   "args"   is followed from a createStore call on, with arguments of every
\*            type; an enhancer, when called, may create the store with the
\*            reducer and the state it was handed and return it, return
\*            something else, or throw; a store returned is subscribed to
\*            and dispatched on;
\*   "apply"  is followed from the createStore call that the enhancer
\*            applyMiddleware(A, B) makes on; the store the enhancer returns
\*            is subscribed to, dispatched on and has its reducer replaced,
\*            also from listeners;
\*   "flag"   reads the state, subscribes f and dispatches INC from anywhere,
\*            reducers included; reducers may throw;
\*   "throw"  reads the state, subscribes f, unsubscribes and dispatches INC,
\*            also from listeners; reducers may throw;
\*   "throwc" does the same on a store whose reducer is the function that
\*            combineReducers returned for two slice reducers, and whose
\*            states are records; it throws when a slice reducer returns
\*            undefined;
\*   "compose" calls compose with up to ComposeMaxFuncs functions out of three
\*            and calls the result with an argument;
\*   "obs"    subscribes f, and through observable().subscribe an observer
\*            with next, one without and a value that is no object; it
\*            unsubscribes and dispatches INC, also from f and from next, and
\*            f and next may throw.
\* MaxDispatches bounds the reducer calls over the life of the store (so the
\* nesting of dispatch calls too), MaxSubs the subscribe calls accepted.
NestMaxDispatches == 3
NestMaxSubs == 2
ReduceMaxDispatches == 3
ReduceMaxSubs == 1
ListsMaxDispatches == 1
ListsMaxSubs == 3
SnapMaxDispatches == 2
SnapMaxSubs == 2
GuardMaxDispatches == 1
GuardMaxSubs == 1
ReplaceMaxDispatches == 3
ReplaceMaxSubs == 1
CreateMaxDispatches == 3
CreateMaxSubs == 2
MwMaxDispatches == 3
MwMaxSubs == 1
ThunkMaxDispatches == 3
ThunkMaxSubs == 1
SetupMaxDispatches == 2
SetupMaxSubs == 2
CombineMaxValue == 1
ArgsMaxDispatches == 3
ArgsMaxSubs == 2
ComposeMaxFuncs == 3
ApplyMaxDispatches == 3
ApplyMaxSubs == 2
FlagMaxDispatches == 3
FlagMaxSubs == 1
ThrowMaxDispatches == 2
ThrowMaxSubs == 1
ObsMaxDispatches == 2
ObsMaxSubs == 2

Largest(S) == CHOOSE x \in S : \A y \in S : y <= x

MaxDispatches ==
  CASE mode = "nest"  -> NestMaxDispatches
    [] mode = "reduce" -> ReduceMaxDispatches
    [] mode = "lists" -> ListsMaxDispatches
    [] mode = "snap"  -> SnapMaxDispatches
    [] mode = "guard" -> GuardMaxDispatches
    [] mode = "replace" -> ReplaceMaxDispatches
    [] mode = "create" -> CreateMaxDispatches
    [] mode \in {"mw", "mw0"} -> MwMaxDispatches
    [] mode = "thunk" -> ThunkMaxDispatches
    [] mode = "setup" -> SetupMaxDispatches
    [] mode = "obs" -> ObsMaxDispatches
    [] mode = "args" -> ArgsMaxDispatches
    [] mode = "apply" -> ApplyMaxDispatches
    [] mode = "flag" -> FlagMaxDispatches
    [] mode \in {"throw", "throwc"} -> ThrowMaxDispatches

MaxSubs ==
  CASE mode = "nest"  -> NestMaxSubs
    [] mode = "reduce" -> ReduceMaxSubs
    [] mode = "lists" -> ListsMaxSubs
    [] mode = "snap"  -> SnapMaxSubs
    [] mode = "guard" -> GuardMaxSubs
    [] mode = "replace" -> ReplaceMaxSubs
    [] mode = "create" -> CreateMaxSubs
    [] mode \in {"mw", "mw0"} -> MwMaxSubs
    [] mode = "thunk" -> ThunkMaxSubs
    [] mode = "setup" -> SetupMaxSubs
    [] mode = "obs" -> ObsMaxSubs
    [] mode = "args" -> ArgsMaxSubs
    [] mode = "apply" -> ApplyMaxSubs
    [] mode = "flag" -> FlagMaxSubs
    [] mode \in {"throw", "throwc"} -> ThrowMaxSubs

\* The runs that record, besides the store's own state, the actions reduced
\* and what each dispatch call has seen of the listeners.
Tracing ==
  mode \in {"nest", "reduce", "replace", "create", "mw", "mw0", "thunk", "obs",
            "args", "apply"}

\* A run is followed until its last dispatch call is over.
Running == ~(stack = << >> /\ nDispatched >= MaxDispatches)

-----------------------------------------------------------------------------
(* Values *)

\* currentListeners = null (store.ts:483); array references are 1, 2, ...
Null == 0
\* A state that was never given: createStore without preloadedState.
Undefined == -1

ArrIds ==
  1..(Largest({NestMaxDispatches, ReduceMaxDispatches, ListsMaxDispatches,
               SnapMaxDispatches, GuardMaxDispatches, ReplaceMaxDispatches,
               CreateMaxDispatches, MwMaxDispatches, ThunkMaxDispatches,
               SetupMaxDispatches, ObsMaxDispatches, ArgsMaxDispatches,
               ApplyMaxDispatches, FlagMaxDispatches, ThrowMaxDispatches}) + 2)
StateVals == {0, 1, 2}
Modulus == Cardinality(StateVals)

\* Listener functions, compared by identity, and a value that is no function.
Fns == {"f", "g"}
NotAFunction == "notAFunction"

\* store.ts:605-610: the observeState closures that observable().subscribe
\* makes, named after their observer: o has a next method, n has none.
ObserveState == {"o", "n"}
HasNext(observer) == observer = "o"
\* A value handed to observable().subscribe that is no object.
NotAnObject == "notAnObject"

\* Reducers the store is given (user code).
Reducers == {"up", "down"}

\* What user code may hand to dispatch: two plain actions, a plain object
\* whose type is undefined, a function (a thunk) and a class instance.
PlainActions == {"INC", "UNKNOWN"}
RejectedActions == {"noType", "thunk", "instance"}

TypeOf(a) == IF a = "thunk" THEN "function" ELSE "object"

\* The length of the prototype chain above the value: 1 for an object
\* literal (Object.prototype), 2 for a class instance.
ProtoDepth(a) == IF a = "instance" THEN 2 ELSE 1

RECURSIVE LastProto(_, _)
\* The walk of part_000:10-12: from the object at height h of a chain of the
\* given depth up to the object whose prototype is null.
LastProto(h, depth) == IF h = depth THEN h ELSE LastProto(h + 1, depth)

\* Only typeof is looked at: a class instance passes.
isPlainObjectLoose(a) == TypeOf(a) = "object"

\* part_000:5-15: Object.getPrototypeOf(obj) === proto.
isPlainObject(a) ==
  /\ TypeOf(a) = "object"
  /\ LET proto == LastProto(0, ProtoDepth(a))
     IN  ProtoDepth(a) >= 1 /\ 1 = proto

\* typeof action.type === 'undefined'
TypeIsUndefined(a) == a = "noType"

IsFunction(x) == x \in Fns \cup Reducers \cup ObserveState

\* The reducers: counters over StateVals that start at 0 and at 2, count up
\* and down on INC and return the state they were given for anything else.
Reducer(r, s, a) ==
  LET init == IF r = "up" THEN 0 ELSE 2
      s0   == IF s = Undefined THEN init ELSE s
      step == IF r = "up" THEN 1 ELSE Modulus - 1
  IN  IF a = "INC" THEN (s0 + step) % Modulus ELSE s0

-----------------------------------------------------------------------------
(* Arrays *)

\* Array.prototype.lastIndexOf: the last index (from 0) holding x, or -1.
LastIndexOf(arr, x) ==
  IF \E j \in 1..Len(arr) : arr[j] = x
  THEN (CHOOSE j \in 1..Len(arr) : arr[j] = x /\ \A k \in (j + 1)..Len(arr) : arr[k] # x) - 1
  ELSE 0 - 1

\* Array.prototype.indexOf: the first index (from 0) holding x, or -1.
IndexOf(arr, x) ==
  IF \E j \in 1..Len(arr) : arr[j] = x
  THEN (CHOOSE j \in 1..Len(arr) : arr[j] = x /\ \A k \in 1..(j - 1) : arr[k] # x) - 1
  ELSE 0 - 1

\* Array.prototype.splice(index, 1): a negative index counts from the end.
Splice1(arr, index) ==
  LET start == IF index < 0
               THEN (IF Len(arr) + index < 0 THEN 0 ELSE Len(arr) + index)
               ELSE index
  IN  IF start >= Len(arr) THEN arr
      ELSE [j \in 1..(Len(arr) - 1) |-> IF j <= start THEN arr[j] ELSE arr[j + 1]]

\* The arrays some variable still refers to.
Refs(cur, nxt, stk) ==
  ({cur, nxt} \cup {stk[j].listeners : j \in 1..Len(stk)}) \ {Null}

\* Arrays nothing refers to are gone.
Collect(h, cur, nxt, stk) ==
  [a \in ArrIds |-> IF a \in Refs(cur, nxt, stk) THEN h[a] ELSE << >>]

\* A new array: the least reference not in use.
FreshArr ==
  LET free == ArrIds \ Refs(currentListeners, nextListeners, stack)
  IN  CHOOSE a \in free : \A b \in free : a <= b

\* The pending list is written in place, also while it is the current list.
ensureNoCopy == [next |-> nextListeners, heap |-> heap]

\* store.ts:396-400.  The value of nextListeners and the heap afterwards.
ensureCanMutateNextListeners ==
  IF nextListeners = currentListeners
  THEN [next |-> FreshArr, heap |-> [heap EXCEPT ![FreshArr] = heap[currentListeners]]]
  ELSE [next |-> nextListeners, heap |-> heap]

-----------------------------------------------------------------------------
(* Events *)

\* No dispatch call.
NoFrame ==
  [op |-> "none", action |-> "", reducer |-> "", pc |-> "none", listeners |-> Null,
   i |-> 0, snap |-> << >>, called |-> << >>, s0 |-> Undefined, at |-> 0, pre |-> {},
   seenAt |-> [f \in Fns \cup ObserveState |-> {}], clean |-> TRUE, layer |-> 0]

\* A call of operation op with argument arg (sub: the subscription concerned)
\* and what became of it.
Event(op, res, arg, sub) ==
  [op |-> op, res |-> res, arg |-> arg, sub |-> sub, fr |-> NoFrame]

\* The dispatch call fr is over: it returned val, or threw (val is its action).
Over(fr, res, val) ==
  [op |-> fr.op, res |-> res, arg |-> val, sub |-> 0, fr |-> fr]

NoEvent == Event("createStore", "returned", "", 0)

ThrowResults == {"threwNotPlain", "threwNoType", "threwReentrant", "threwNotFunction",
                 "threwReducer", "threwListener", "threwConstructing", "threwSetup",
                 "threwShape", "threwUndefined", "threwNotObject", "threwObserver",
                 "threwSeveral", "threwEnhancerNotFunction", "threwEnhancer"}

Threw(e) == e.res \in ThrowResults

-----------------------------------------------------------------------------
(* combineReducers.ts.  A state of the combined reducer is a record of slice *)
(* values by key; slice values are numbers or undefined, compared by value   *)
(* as !== compares them.                                                     *)

\* Object.keys(reducers), in order, and a key no reducer is given for.
Keys == <<"a", "b">>
ExtraKey == "x"

\* The entries of the reducers object: a value that is no function, or a slice
\* reducer, which
\*   keep     returns its state, and 0 for an undefined state;
\*   count    does the same but counts on INC;
\*   drop     does the same but returns undefined on INC;
\*   noInit   returns its state, also when it is undefined;
\*   noProbe  returns its state, and for an undefined state 0 on INIT only.
SliceKinds == {"keep", "count", "drop", "noInit", "noProbe", "notFn"}

SliceValues == 0..CombineMaxValue

SliceReducer(kind, s, type) ==
  CASE kind = "keep"    -> IF s = Undefined THEN 0 ELSE s
    [] kind = "count"   -> IF s = Undefined THEN 0
                           ELSE IF type = "INC" THEN (s + 1) % (CombineMaxValue + 1)
                           ELSE s
    [] kind = "drop"    -> IF type = "INC" THEN Undefined
                           ELSE IF s = Undefined THEN 0 ELSE s
    [] kind = "noInit"  -> s
    [] kind = "noProbe" -> IF s # Undefined THEN s
                           ELSE IF type = "INIT" THEN 0 ELSE Undefined

\* The state argument undefined, and the states that are records.
NoState == [k \in {"undefined"} |-> 0]

StateRecords ==
  {r \in UNION {[S -> SliceValues \cup {Undefined}] :
                  S \in SUBSET {Keys[1], Keys[2], ExtraKey}} :
     ExtraKey \in DOMAIN r => r[ExtraKey] = 0}

StateInputs == StateRecords \cup {NoState}

\* state[key] (combineReducers.ts:192).
Get(state, key) == IF key \in DOMAIN state THEN state[key] ELSE Undefined

\* combineReducers.ts:126-141: the keys whose value is a function.
finalReducerKeys(reducers) == SelectSeq(Keys, LAMBDA k : reducers[k] # "notFn")

\* The shape check probes with INIT only.
assertReducerShapeInitOnly(reducers) ==
  LET keys == finalReducerKeys(reducers)
      bad  == {j \in 1..Len(keys) :
                 SliceReducer(reducers[keys[j]], Undefined, "INIT") = Undefined}
  IN  IF bad = {} THEN "none" ELSE "init"

\* combineReducers.ts:63-93: what assertReducerShape throws ("none": it
\* returns): for each key in turn, the reducer is called with (undefined, INIT)
\* and then with (undefined, a random type).
assertReducerShape(reducers) ==
  LET keys == finalReducerKeys(reducers)
      noInit(j)  == SliceReducer(reducers[keys[j]], Undefined, "INIT") = Undefined
      noProbe(j) == SliceReducer(reducers[keys[j]], Undefined, "PROBE") = Undefined
      bad == {j \in 1..Len(keys) : noInit(j) \/ noProbe(j)}
  IN  IF bad = {} THEN "none"
      ELSE IF noInit(CHOOSE j \in bad : \A i \in bad : j <= i) THEN "init" ELSE "probe"

\* A new record is returned whatever the slice reducers returned.
hasChangedAlways(keys, state, outs) == TRUE

\* combineReducers.ts:187, 205, 208-209.
hasChanged(keys, state, outs) ==
  \/ \E j \in 1..Len(keys) : outs[j] # Get(state, keys[j])
  \/ Len(keys) # Cardinality(DOMAIN state)

\* combineReducers.ts:161-211: a call of the function combineReducers
\* returned (c: what it closed over).  out: it threw the shape error, threw for
\* an undefined slice, or returned its state argument ("same") or a new record;
\* calls: the slice reducer calls it made.
combination(c, input, type) ==
  LET state == IF input = NoState THEN << >> ELSE input
      keys  == c.keys
      outs  == [j \in 1..Len(keys) |->
                  SliceReducer(c.reducers[keys[j]], Get(state, keys[j]), type)]
      bad   == {j \in 1..Len(keys) : outs[j] = Undefined}
      nextState == [k \in {keys[j] : j \in 1..Len(keys)} |->
                      outs[CHOOSE j \in 1..Len(keys) : keys[j] = k]]
  IN  IF c.error # "none"
      THEN [out |-> "threwShape", next |-> NoState, calls |-> 0]
      ELSE IF bad # {}
      THEN [out |-> "threwUndefined", next |-> NoState,
            calls |-> CHOOSE j \in bad : \A i \in bad : j <= i]
      ELSE IF hasChanged(keys, state, outs)
      THEN [out |-> "new", next |-> nextState, calls |-> Len(keys)]
      ELSE [out |-> "same", next |-> state, calls |-> Len(keys)]

\* Before combineReducers is called with the given reducers object.
NotCombined(reducers) ==
  [phase |-> "start", reducers |-> reducers, keys |-> << >>, error |-> "none",
   caller |-> "", input |-> NoState, type |-> "", out |-> "none",
   next |-> NoState, calls |-> 0]

\* The runs that do not use combineReducers.
NoCombined == NotCombined([k \in {Keys[1], Keys[2]} |-> "notFn"])

-----------------------------------------------------------------------------
(* The arguments of createStore (store.ts:334-381), by their types *)

\* A createStore call: the reducer, and of the other arguments whether each
\* is undefined, a function, or something else (a state, an object).
Arguments ==
  [reducer : {"up", NotAFunction},
   second  : {"undefined", "value", "function"},
   third   : {"undefined", "object", "function"},
   fourth  : {"undefined", "function"}]

\* createStore(reducer), for the runs that start after construction.
NoArgs ==
  [reducer |-> "up", second |-> "undefined", third |-> "undefined",
   fourth |-> "undefined"]

\* The reducer is validated before the enhancer is looked at.
createStoreArgumentsReducerFirst(a) ==
  LET shifted == a.second = "function" /\ a.third = "undefined"
      enhancer == IF shifted THEN "function" ELSE a.third
      preloaded == IF shifted THEN "undefined" ELSE a.second
  IN  IF \/ a.second = "function" /\ a.third = "function"
         \/ a.third = "function" /\ a.fourth = "function"
      THEN [outcome |-> "threwSeveral", shifted |-> FALSE, preloaded |-> "undefined"]
      ELSE IF ~IsFunction(a.reducer)
      THEN [outcome |-> "threwNotFunction", shifted |-> FALSE, preloaded |-> preloaded]
      ELSE IF enhancer = "undefined"
      THEN [outcome |-> "create", shifted |-> FALSE, preloaded |-> preloaded]
      ELSE IF enhancer # "function"
      THEN [outcome |-> "threwEnhancerNotFunction", shifted |-> shifted,
            preloaded |-> preloaded]
      ELSE [outcome |-> "delegate", shifted |-> shifted, preloaded |-> preloaded]

\* store.ts:344-381: what createStore does with its arguments: it throws, it
\* hands (reducer, preloaded) to the enhancer, or it goes on to create the
\* store with the preloaded state.
createStoreArguments(a) ==
  LET shifted == a.second = "function" /\ a.third = "undefined"
      enhancer == IF shifted THEN "function" ELSE a.third
      preloaded == IF shifted THEN "undefined" ELSE a.second
  IN  IF \/ a.second = "function" /\ a.third = "function"
         \/ a.third = "function" /\ a.fourth = "function"
      THEN [outcome |-> "threwSeveral", shifted |-> FALSE, preloaded |-> "undefined"]
      ELSE IF enhancer # "undefined"
      THEN IF enhancer # "function"
           THEN [outcome |-> "threwEnhancerNotFunction", shifted |-> shifted,
                 preloaded |-> preloaded]
           ELSE [outcome |-> "delegate", shifted |-> shifted, preloaded |-> preloaded]
      ELSE IF ~IsFunction(a.reducer)
      THEN [outcome |-> "threwNotFunction", shifted |-> FALSE, preloaded |-> preloaded]
      ELSE [outcome |-> "create", shifted |-> FALSE, preloaded |-> preloaded]

-----------------------------------------------------------------------------
(* compose (part_001:45-60) on function values.  A function is one of the    *)
(* functions user code passes, the identity compose returns for no function, *)
(* or a closure (...args) => a(b(...args)) over two functions.  A value is   *)
(* the sequence of the functions applied to an argument, outermost first,    *)
(* followed by the argument.                                                 *)

Given(name) == [kind |-> "given", name |-> name]
Identity == [kind |-> "identity"]
Closure(a, b) == [kind |-> "closure", a |-> a, b |-> b]

GivenFunctions == {Given("f"), Given("g"), Given("h")}
ComposeArguments == {"x", "y"}

RECURSIVE SeqsUpTo(_, _)
SeqsUpTo(S, n) ==
  IF n = 0 THEN {<< >>}
  ELSE LET shorter == SeqsUpTo(S, n - 1)
       IN  shorter \cup {Append(s, x) : s \in shorter, x \in S}

\* Array.prototype.reduce without an initial value, from index i on, for the
\* callback (a, b) => (...args) => b(a(...args)).
RECURSIVE reduceLeftToRight(_, _, _)
reduceLeftToRight(funcs, acc, i) ==
  IF i > Len(funcs) THEN acc
  ELSE reduceLeftToRight(funcs, Closure(funcs[i], acc), i + 1)

\* part_001:55-59: Array.prototype.reduce without an initial value, from index
\* i on, for the callback (a, b) => (...args) => a(b(...args)).
RECURSIVE reduce(_, _, _)
reduce(funcs, acc, i) ==
  IF i > Len(funcs) THEN acc
  ELSE reduce(funcs, Closure(acc, funcs[i]), i + 1)

\* compose applies the functions from left to right.
composedLeftToRight(funcs) ==
  IF Len(funcs) = 0 THEN Identity
  ELSE IF Len(funcs) = 1 THEN funcs[1]
  ELSE reduceLeftToRight(funcs, funcs[1], 2)

\* part_001:45-60: the function compose(...funcs) returns.
composed(funcs) ==
  IF Len(funcs) = 0 THEN Identity
  ELSE IF Len(funcs) = 1 THEN funcs[1]
  ELSE reduce(funcs, funcs[1], 2)

\* A call of function fn with the value st.val; st.trace lists the given
\* functions called so far, in the order of the calls.
RECURSIVE Apply(_, _)
Apply(fn, st) ==
  CASE fn.kind = "given" -> [val |-> <<fn.name>> \o st.val, trace |-> Append(st.trace, fn.name)]
    [] fn.kind = "identity" -> st
    [] fn.kind = "closure" -> Apply(fn.a, Apply(fn.b, st))

\* Before compose is called with these functions.
NotComposed(funcs) ==
  [phase |-> "start", funcs |-> funcs, fn |-> Identity, arg |-> "",
   val |-> << >>, trace |-> << >>]

\* The runs that do not call compose themselves.
NoComposition == NotComposed(<< >>)

-----------------------------------------------------------------------------
(* Dispatch frames *)

Top == stack[Len(stack)]
Pop(stk) == SubSeq(stk, 1, Len(stk) - 1)

\* The subscriptions in force.
ActiveSubs == {k \in 1..Len(subs) : subs[k].isSubscribed}

\* A dispatch call that passed its checks (store.ts:527-529), its reducer
\* running.  op is the operation user code called: dispatch or replaceReducer.
\* r is the function store.ts:529 calls: the value of currentReducer then.
\* Besides the locals of dispatch (action, listeners, i) a frame records what
\* the call has seen: the state it started from (s0), the subscriptions then in
\* force (pre), the list it adopted (snap), the listeners it invoked (called),
\* how many reducer calls had returned when its own did (at), the states each
\* function was invoked in during the call (seenAt) and whether no listener
\* threw through a call nested in it (clean); the last two only when Tracing.
NewFrame(op, a, r) ==
  [op |-> op, action |-> a, reducer |-> r, pc |-> "reducing", listeners |-> Null,
   i |-> 0, snap |-> << >>, called |-> << >>, s0 |-> currentState, at |-> 0,
   pre |-> ActiveSubs,
   seenAt |-> [f \in Fns \cup ObserveState |-> {}], clean |-> TRUE, layer |-> 0]

\* Every dispatch in progress has seen listener f invoked in state s.
MarkSeen(stk, f, s) ==
  IF ~Tracing THEN stk
  ELSE [j \in 1..Len(stk) |-> [stk[j] EXCEPT !.seenAt[f] = @ \cup {s}]]

\* A listener threw through a dispatch nested in each of these.
MarkAborted(stk) ==
  IF ~Tracing THEN stk
  ELSE [j \in 1..Len(stk) |-> [stk[j] EXCEPT !.clean = FALSE]]

\* dispatch returns the action reduced last.
LastReduced(fr) == IF log = << >> THEN fr.action ELSE log[Len(log)]

\* The value dispatch returns: store.ts:541.
DispatchResult(fr) == fr.action

\* The store object createStore builds and returns: store.ts:627-634.
Store == "store"

\* What the call that made the dispatch fr returns: dispatch returns the
\* action (store.ts:541), replaceReducer the store object of its closure
\* (store.ts:569-571), createStore the same object (store.ts:634).
CallResult(fr) == IF fr.op = "dispatch" THEN DispatchResult(fr) ELSE Store

\* store.ts:536-541: the loop test with index i (from 0) for the innermost
\* dispatch fr, in state s: the next listener is invoked, or dispatch returns.
Notify(fr, i, s) ==
  LET arr == heap[fr.listeners]
  IN  IF i < Len(arr)
      THEN LET f  == arr[i + 1]
               fr2 == [fr EXCEPT !.pc = "inListener", !.i = i, !.called = Append(@, f)]
           IN  /\ stack' = MarkSeen(Append(Pop(stack), fr2), f, s)
               /\ ev' = Event("listener", "invoked", f, 0)
      ELSE /\ stack' = Pop(stack)
           /\ ev' = Over(fr, "returned", CallResult(fr))

-----------------------------------------------------------------------------
(* The store after createStore(reducer, preloadedState) returned:          *)
(* store.ts:383-387 and the INIT dispatch of store.ts:625, which finds no  *)
(* listener.                                                               *)

InitFor(m) ==
  /\ mode = m
  /\ currentReducer = "up"
  /\ preloadedState \in (IF m \in {"lists", "snap"} THEN {Undefined} ELSE {Undefined, 1})
  /\ currentState = Reducer(currentReducer, preloadedState, "INIT")
  /\ currentListeners = 1
  /\ nextListeners = 1
  /\ isDispatching = FALSE
  /\ heap = [a \in ArrIds |-> << >>]
  /\ subs = << >>
  /\ stack = << >>
  /\ log = << >>
  /\ nDispatched = 0
  /\ args = NoArgs
  /\ composition = NoComposition
  /\ combined = NoCombined
  /\ ev = NoEvent

\* createStore(reducer, preloadedState) has been called and has set its locals
\* (store.ts:383-387); the INIT dispatch of store.ts:625 is still to come.
InitCreate ==
  /\ mode = "create"
  /\ currentReducer \in Reducers
  /\ preloadedState \in {Undefined, 1}
  /\ currentState = preloadedState
  /\ currentListeners = 1
  /\ nextListeners = 1
  /\ isDispatching = FALSE
  /\ heap = [a \in ArrIds |-> << >>]
  /\ subs = << >>
  /\ stack = << >>
  /\ log = << >>
  /\ nDispatched = 0
  /\ args = NoArgs
  /\ composition = NoComposition
  /\ combined = NoCombined
  /\ ev = Event("createStore", "called", "", 0)

\* createStore has returned the store (store.ts:627-634): user code holds it.
StoreReturned == ev.op # "createStore" \/ ev.res = "returned"

-----------------------------------------------------------------------------
(* Operations *)

\* A call that threw or had nothing to do: only the event tells.
Quiet == UNCHANGED <<storeVars, stack, log, nDispatched, fixedVars>>

\* getState without the check of store.ts:408-414.
getStateUnguarded ==
  /\ Running
  /\ ev' = Event("getState", "returned", "", 0)
  /\ Quiet

\* store.ts:407-417
getState ==
  /\ Running
  /\ ev' = IF isDispatching
           THEN Event("getState", "threwReentrant", "", 0)
           ELSE Event("getState", "returned", "", 0)
  /\ Quiet

\* What a getState call that does not throw returns: store.ts:416.
GetStateResult == currentState

\* store.ts:438-465
subscribe(listener) ==
  /\ Running
  /\ IF ~IsFunction(listener)
     THEN ev' = Event("subscribe", "threwNotFunction", listener, 0) /\ Quiet
     ELSE IF isDispatching
     THEN ev' = Event("subscribe", "threwReentrant", listener, 0) /\ Quiet
     ELSE /\ Len(subs) < MaxSubs
          /\ LET e == ensureCanMutateNextListeners
             IN  /\ nextListeners' = e.next
                 /\ heap' = Collect([e.heap EXCEPT ![e.next] = Append(@, listener)],
                                    currentListeners, e.next, stack)
          /\ subs' = Append(subs, [listener |-> listener, isSubscribed |-> TRUE])
          /\ ev' = Event("subscribe", "returned", listener, Len(subs) + 1)
          /\ UNCHANGED <<currentReducer, currentState, currentListeners, isDispatching,
                         stack, log, nDispatched, fixedVars>>

\* The closure never learns that it has run.
neverUnsubscribed(k) == TRUE

\* store.ts:456, 467: the flag of the closure the k-th subscribe call made.
isSubscribed(k) == subs[k].isSubscribed

\* The current list is set to null before the pending list is made writable.
unsubscribeNullFirst(k) ==
  /\ Running
  /\ IF ~isSubscribed(k)
     THEN ev' = Event("unsubscribe", "returned", subs[k].listener, k) /\ Quiet
     ELSE IF isDispatching
     THEN ev' = Event("unsubscribe", "threwReentrant", subs[k].listener, k) /\ Quiet
     ELSE /\ subs' = [subs EXCEPT ![k].isSubscribed = FALSE]
          /\ LET index == IndexOf(heap[nextListeners], subs[k].listener)
             IN  /\ nextListeners' = nextListeners
                 /\ currentListeners' = Null
                 /\ heap' = Collect([heap EXCEPT ![nextListeners] = Splice1(@, index)],
                                    Null, nextListeners, stack)
          /\ ev' = Event("unsubscribe", "removed", subs[k].listener, k)
          /\ UNCHANGED <<currentReducer, currentState, isDispatching,
                         stack, log, nDispatched, fixedVars>>

\* store.ts:466-484: the function that the k-th subscribe call returned.
unsubscribe(k) ==
  /\ Running
  /\ IF ~isSubscribed(k)
     THEN ev' = Event("unsubscribe", "returned", subs[k].listener, k) /\ Quiet
     ELSE IF isDispatching
     THEN ev' = Event("unsubscribe", "threwReentrant", subs[k].listener, k) /\ Quiet
     ELSE /\ subs' = [subs EXCEPT ![k].isSubscribed = FALSE]
          /\ LET e     == ensureCanMutateNextListeners
                 index == IndexOf(e.heap[e.next], subs[k].listener)
             IN  /\ nextListeners' = e.next
                 /\ currentListeners' = Null
                 /\ heap' = Collect([e.heap EXCEPT ![e.next] = Splice1(@, index)],
                                    Null, e.next, stack)
          /\ ev' = Event("unsubscribe", "removed", subs[k].listener, k)
          /\ UNCHANGED <<currentReducer, currentState, isDispatching,
                         stack, log, nDispatched, fixedVars>>

\* dispatch without the check of store.ts:523-525.
EnterDispatchUnguarded(op, a, r) ==
  /\ nDispatched < MaxDispatches
  /\ nDispatched' = nDispatched + 1
  /\ isDispatching' = TRUE
  /\ stack' = Append(stack, NewFrame(op, a, r))
  /\ ev' = Event(op, "reducing", a, 0)
  /\ UNCHANGED <<currentState, currentListeners, nextListeners, heap, subs,
                 log, fixedVars>>

\* store.ts:523-528: the re-entrancy check, then the reducer is called.
\* Leaves currentReducer to the caller, who passes its value as r.
EnterDispatch(op, a, r) ==
  IF isDispatching
  THEN /\ ev' = Event(op, "threwReentrant", a, 0)
       /\ UNCHANGED <<currentState, currentListeners, nextListeners, isDispatching,
                      heap, subs, stack, log, nDispatched, fixedVars>>
  ELSE /\ nDispatched < MaxDispatches
       /\ nDispatched' = nDispatched + 1
       /\ isDispatching' = TRUE
       /\ stack' = Append(stack, NewFrame(op, a, r))
       /\ ev' = Event(op, "reducing", a, 0)
       /\ UNCHANGED <<currentState, currentListeners, nextListeners, heap, subs,
                      log, fixedVars>>

\* store.ts:507-528
dispatch(action) ==
  /\ Running
  /\ IF ~isPlainObject(action)
     THEN ev' = Event("dispatch", "threwNotPlain", action, 0) /\ Quiet
     ELSE IF TypeIsUndefined(action)
     THEN ev' = Event("dispatch", "threwNoType", action, 0) /\ Quiet
     ELSE EnterDispatch("dispatch", action, currentReducer) /\ UNCHANGED currentReducer

\* The REPLACE action is dispatched before the new reducer is in place.
replaceReducerLate(nextReducer) ==
  /\ Running
  /\ IF ~IsFunction(nextReducer)
     THEN ev' = Event("replaceReducer", "threwNotFunction", nextReducer, 0) /\ Quiet
     ELSE /\ currentReducer' = nextReducer
          /\ EnterDispatch("replaceReducer", "REPLACE", currentReducer)

\* createStore returns the store without dispatching INIT.
createStoreNoInit ==
  /\ ev.op = "createStore"
  /\ ev.res = "called"
  /\ ev' = Event("createStore", "returned", "", 0)
  /\ Quiet

\* store.ts:625: createStore dispatches INIT; when that dispatch returns
\* createStore returns the store (store.ts:627-634).
createStore ==
  /\ ev.op = "createStore"
  /\ ev.res = "called"
  /\ EnterDispatch("createStore", "INIT", currentReducer)
  /\ UNCHANGED currentReducer

\* replaceReducer checks the flag before it touches the reducer.
replaceReducerGuarded(nextReducer) ==
  /\ Running
  /\ IF ~IsFunction(nextReducer)
     THEN ev' = Event("replaceReducer", "threwNotFunction", nextReducer, 0) /\ Quiet
     ELSE IF isDispatching
     THEN ev' = Event("replaceReducer", "threwReentrant", "REPLACE", 0) /\ Quiet
     ELSE /\ currentReducer' = nextReducer
          /\ EnterDispatch("replaceReducer", "REPLACE", nextReducer)

\* store.ts:552-569
replaceReducer(nextReducer) ==
  /\ Running
  /\ IF ~IsFunction(nextReducer)
     THEN ev' = Event("replaceReducer", "threwNotFunction", nextReducer, 0) /\ Quiet
     ELSE /\ currentReducer' = nextReducer
          /\ EnterDispatch("replaceReducer", "REPLACE", nextReducer)

\* The reducer is given the state the store was created with.
NextStateFromPreloaded(fr) == Reducer(fr.reducer, preloadedState, fr.action)

\* The reducer is given the state the outermost dispatch in progress began in.
NextStateFromOutermost(fr) == Reducer(fr.reducer, stack[1].s0, fr.action)

\* The reducer of a store that was given the function combineReducers
\* returned (its closure is kept in combined).
Combined == "combined"

\* currentReducer(state, action): store.ts:529.
CallReducer(r, s, a) ==
  IF r = Combined THEN combination(combined, s, a).next ELSE Reducer(r, s, a)

\* Whether that call throws: a user reducer may at any call, the combined one
\* does when combination does (combineReducers.ts:164-166, 193-206).
MayThrow(r, s, a) ==
  IF r = Combined THEN combination(combined, s, a).out \in ThrowResults ELSE TRUE

MayReturn(r, s, a) ==
  IF r = Combined THEN combination(combined, s, a).out \notin ThrowResults ELSE TRUE

\* The state the reducer call of store.ts:529 leaves in currentState.
NextState(fr) == CallReducer(fr.reducer, currentState, fr.action)

\* The loop walks the list the last dispatch adopted, if it is still there.
StaleList == IF currentListeners # Null THEN currentListeners ELSE nextListeners

\* The list the notification loop walks: store.ts:535.
AdoptedList == nextListeners

\* store.ts:529-541: the reducer returns; the state is committed, the flag
\* cleared, the pending list adopted and the notification loop entered.
ReducerReturns ==
  /\ stack # << >>
  /\ Top.pc = "reducing"
  /\ log' = IF Tracing THEN Append(log, Top.action) ELSE log
  /\ LET fr == [Top EXCEPT !.listeners = AdoptedList, !.snap = heap[AdoptedList],
                           !.at = Len(log')]
     IN  /\ currentState' = NextState(Top)
         /\ isDispatching' = FALSE
         /\ currentListeners' = AdoptedList
         /\ Notify(fr, 0, currentState')
         /\ heap' = Collect(heap, AdoptedList, nextListeners, stack')
  /\ UNCHANGED <<currentReducer, nextListeners, subs, nDispatched, fixedVars>>

\* The flag is cleared only when the reducer returns.
ReducerThrowsNoFinally ==
  /\ stack # << >>
  /\ Top.pc = "reducing"
  /\ stack' = Pop(stack)
  /\ ev' = Over(Top, "threwReducer", Top.action)
  /\ UNCHANGED <<currentReducer, currentState, currentListeners, nextListeners,
                 isDispatching, heap, subs, log, nDispatched, fixedVars>>

\* The pending list is adopted before the reducer is called.
ReducerThrowsAdopting ==
  /\ stack # << >>
  /\ Top.pc = "reducing"
  /\ isDispatching' = FALSE
  /\ stack' = Pop(stack)
  /\ ev' = Over(Top, "threwReducer", Top.action)
  /\ currentListeners' = nextListeners
  /\ heap' = Collect(heap, nextListeners, nextListeners, stack')
  /\ UNCHANGED <<currentReducer, currentState, nextListeners,
                 subs, log, nDispatched, fixedVars>>

\* store.ts:529-532: the reducer throws; finally clears the flag.
ReducerThrows ==
  /\ stack # << >>
  /\ Top.pc = "reducing"
  /\ isDispatching' = FALSE
  /\ stack' = Pop(stack)
  /\ ev' = Over(Top, "threwReducer", Top.action)
  /\ UNCHANGED <<currentReducer, currentState, currentListeners, nextListeners,
                 heap, subs, log, nDispatched, fixedVars>>

\* store.ts:536-541: a listener returns; the loop goes on.
ListenerReturns ==
  /\ stack # << >>
  /\ Top.pc = "inListener"
  /\ Notify(Top, Top.i + 1, currentState)
  /\ heap' = Collect(heap, currentListeners, nextListeners, stack')
  /\ UNCHANGED <<currentReducer, currentState, currentListeners, nextListeners,
                 isDispatching, subs, log, nDispatched, fixedVars>>

\* dispatch undoes its state change when a listener throws.
ListenerThrowsRollback ==
  /\ stack # << >>
  /\ Top.pc = "inListener"
  /\ stack' = MarkAborted(Pop(stack))
  /\ ev' = Over(Top, "threwListener", Top.action)
  /\ currentState' = Top.s0
  /\ heap' = Collect(heap, currentListeners, nextListeners, stack')
  /\ UNCHANGED <<currentReducer, currentListeners, nextListeners,
                 isDispatching, subs, log, nDispatched, fixedVars>>

\* store.ts:538: a listener throws; nothing catches it inside dispatch.
ListenerThrows ==
  /\ stack # << >>
  /\ Top.pc = "inListener"
  /\ stack' = MarkAborted(Pop(stack))
  /\ ev' = Over(Top, "threwListener", Top.action)
  /\ heap' = Collect(heap, currentListeners, nextListeners, stack')
  /\ UNCHANGED <<currentReducer, currentState, currentListeners, nextListeners,
                 isDispatching, subs, log, nDispatched, fixedVars>>

-----------------------------------------------------------------------------
(* createStore from its call on (store.ts:334-381), and the enhancer it may  *)
(* hand the construction to: user code, a frame of the stack while it runs.  *)

\* createStore has been called with some arguments; the state the store would
\* be created with is the second argument if that is a state.
InitArgs ==
  /\ mode = "args"
  /\ args \in Arguments
  /\ currentReducer = "up"
  /\ preloadedState = IF args.second = "value" THEN 1 ELSE Undefined
  /\ currentState = preloadedState
  /\ currentListeners = 1
  /\ nextListeners = 1
  /\ isDispatching = FALSE
  /\ heap = [a \in ArrIds |-> << >>]
  /\ subs = << >>
  /\ stack = << >>
  /\ log = << >>
  /\ nDispatched = 0
  /\ composition = NoComposition
  /\ combined = NoCombined
  /\ ev = Event("createStore", "called", "", 0)

\* enhancer(createStore)(reducer, preloaded) while it runs: reducer and action
\* hold the two arguments it was handed.
EnhancerFrame(reducer, preloaded) ==
  [NoFrame EXCEPT !.op = "enhancer", !.pc = "enhancer", !.reducer = reducer,
                  !.action = preloaded]

\* store.ts:344-387, 625: createStore throws, calls the enhancer, or sets its
\* locals and dispatches INIT.
createStoreCalled ==
  /\ ev.op = "createStore"
  /\ ev.res = "called"
  /\ LET n == createStoreArguments(args)
     IN  CASE n.outcome = "delegate" ->
                /\ stack' = <<EnhancerFrame(args.reducer, n.preloaded)>>
                /\ ev' = Event("enhancer", "called", n.preloaded, 0)
                /\ UNCHANGED <<storeVars, log, nDispatched, fixedVars>>
           [] n.outcome = "create" ->
                /\ EnterDispatch("createStore", "INIT", currentReducer)
                /\ UNCHANGED currentReducer
           [] OTHER ->
                /\ ev' = Event("createStore", n.outcome, "", 0)
                /\ Quiet

\* The enhancer, just called, calls the createStore it was given with the
\* reducer and the state it was handed, as applyMiddleware does (part_002:65).
EnhancerCreatesStore ==
  /\ stack # << >>
  /\ Top.op = "enhancer"
  /\ ev.op = "enhancer"
  /\ LET n == createStoreArguments([reducer |-> Top.reducer, second |-> Top.action,
                                    third |-> "undefined", fourth |-> "undefined"])
     IN  IF n.outcome = "create"
         THEN EnterDispatch("createStore", "INIT", currentReducer) /\ UNCHANGED currentReducer
         ELSE ev' = Event("createStore", n.outcome, "", 0) /\ Quiet

\* What an enhancer returns: the store it created, if any, or something else.
EnhancerResult == IF log # << >> THEN "store" ELSE "other"

\* store.ts:369-372: the enhancer returns, and createStore returns that.
EnhancerReturns ==
  /\ stack # << >>
  /\ Top.op = "enhancer"
  /\ stack' = Pop(stack)
  /\ ev' = [Over(Top, "returned", EnhancerResult) EXCEPT !.op = "createStore"]
  /\ UNCHANGED <<storeVars, log, nDispatched, fixedVars>>

\* store.ts:369-372: the enhancer throws (what a call it made threw, or an
\* error of its own), and so does createStore.
EnhancerThrows ==
  /\ stack # << >>
  /\ Top.op = "enhancer"
  /\ stack' = Pop(stack)
  /\ ev' = [Over(Top, IF Threw(ev) THEN ev.res ELSE "threwEnhancer", "")
              EXCEPT !.op = "createStore"]
  /\ UNCHANGED <<storeVars, log, nDispatched, fixedVars>>

\* User code holds a store that createStore returned and is running.
Held ==
  /\ IF stack = << >> THEN log # << >> ELSE Top.pc = "inListener"
  /\ ~(ev.op = "createStore" /\ (Threw(ev) \/ ev.arg = "other"))

-----------------------------------------------------------------------------
(* Calls of compose and of the function it returns *)

InitCompose ==
  /\ mode = "compose"
  /\ currentReducer = "up"
  /\ preloadedState = Undefined
  /\ currentState = preloadedState
  /\ currentListeners = 1
  /\ nextListeners = 1
  /\ isDispatching = FALSE
  /\ heap = [a \in ArrIds |-> << >>]
  /\ subs = << >>
  /\ stack = << >>
  /\ log = << >>
  /\ nDispatched = 0
  /\ args = NoArgs
  /\ \E funcs \in SeqsUpTo(GivenFunctions, ComposeMaxFuncs) :
        composition = NotComposed(funcs)
  /\ combined = NoCombined
  /\ ev = Event("compose", "called", "", 0)

\* part_001:45-60: compose(...funcs) returns a function.
composeCalled ==
  /\ composition.phase = "start"
  /\ composition' = [composition EXCEPT !.phase = "composed",
                                        !.fn = composed(composition.funcs)]
  /\ ev' = Event("compose", "returned", "", 0)
  /\ UNCHANGED <<storeVars, stack, log, nDispatched, preloadedState, mode, args,
                 combined>>

\* The function compose returned is called with an argument.
composedCalled ==
  /\ composition.phase # "start"
  /\ \E x \in ComposeArguments :
       LET r == Apply(composition.fn, [val |-> <<x>>, trace |-> << >>])
       IN  /\ composition' = [composition EXCEPT !.phase = "applied", !.arg = x,
                                                 !.val = r.val, !.trace = r.trace]
           /\ ev' = Event("composed", "returned", x, 0)
  /\ UNCHANGED <<storeVars, stack, log, nDispatched, preloadedState, mode, args,
                 combined>>

-----------------------------------------------------------------------------
(* observable (store.ts:586-621) *)

\* observer.next is not called before the listener is registered.
observableSubscribeNoFirst(observer) ==
  IF observer = NotAnObject
  THEN Running /\ ev' = Event("observable.subscribe", "threwNotObject", observer, 0) /\ Quiet
  ELSE subscribe(observer)

\* store.ts:596-612: observable().subscribe(observer) up to the first call of
\* observeState.  A value that is no object is rejected; for an observer with
\* next, observeState calls getState (which throws while a reducer runs) and
\* then observer.next with the state: user code, which is running when this
\* step is over (inNext); with no next, store.ts:613 follows at once.
observableSubscribe(observer) ==
  IF observer = NotAnObject
  THEN Running /\ ev' = Event("observable.subscribe", "threwNotObject", observer, 0) /\ Quiet
  ELSE IF ~HasNext(observer)
  THEN subscribe(observer)
  ELSE /\ Running
       /\ IF isDispatching
          THEN ev' = Event("observable.subscribe", "threwReentrant", observer, 0)
          ELSE /\ Len(subs) < MaxSubs
               /\ ev' = Event("observable.subscribe", "inNext", observer, 0)
       /\ Quiet

\* The first observer.next call is running.
InNext == ev.op = "observable.subscribe" /\ ev.res = "inNext"

\* store.ts:612-614: the first observer.next call returns; observeState is
\* registered with the store's subscribe, whose unsubscribe is handed back.
ObserverNextReturns ==
  /\ InNext
  /\ subscribe(ev.arg)

\* store.ts:612: the first observer.next call throws: nothing is registered.
ObserverNextThrows ==
  /\ InNext
  /\ ev' = Event("observable.subscribe", "threwObserver", ev.arg, 0)
  /\ Quiet

\* The listener being invoked by the innermost dispatch, if any.
RunningListener ==
  IF stack = << >> THEN "" ELSE
  IF Top.pc # "inListener" THEN "" ELSE Top.called[Len(Top.called)]

\* User code is running that may call the store: not the observeState of an
\* observer without next, which returns at once (store.ts:605-610).
UserRuns == ~InNext /\ (RunningListener = "" \/ RunningListener \in Fns \/ HasNext(RunningListener))

\* No observeState closure was made for this observer yet.
NotYetObserving(observer) == \A k \in 1..Len(subs) : subs[k].listener # observer

-----------------------------------------------------------------------------
(* applyMiddleware (part_002) and compose (part_001).  A middleware is user  *)
(* code; a call of its innermost function (action => ...) is a frame of the  *)
(* stack, and so is the enhancer while it sets the middlewares up.           *)

\* The middlewares applyMiddleware was given, outermost first.
Middlewares ==
  CASE mode = "mw" -> <<"A", "B", "C">>
    [] mode = "thunk" -> <<"A", "T", "C">>
    [] mode = "setup" -> <<"A", "B">>
    [] mode = "apply" -> <<"A", "B">>
    [] OTHER -> << >>

\* The function composed from n functions, applied to an argument, by left-to-
\* right nesting: the last function is called first and the first one receives
\* the argument.
composeReversed(n) ==
  [outer |-> IF n = 0 THEN n + 1 ELSE n,
   next  |-> [k \in 1..n |-> IF k = 1 THEN n + 1 ELSE k - 1]]

\* part_001:45-60: compose(f1, ..., fn)(arg) is f1(f2(...fn(arg))).  With the
\* functions numbered 1..n and the argument n + 1: the function the result
\* stands for (outer: the argument itself when n = 0, the only function when
\* n = 1) and the function each fk was handed (next).
compose(n) ==
  [outer |-> IF n = 0 THEN n + 1 ELSE 1,
   next  |-> [k \in 1..n |-> k + 1]]

\* part_002:83: dispatch = compose(...chain)(store.dispatch).
Composed == compose(Len(Middlewares))

\* store.dispatch as the argument of the composition.
BaseDispatch == Len(Middlewares) + 1

\* What a recording middleware appends to the trace (kept in log).
In(k) == Middlewares[k] \o "-in"
Out(k) == Middlewares[k] \o "-out"

\* A call of the innermost function of middleware k with an action; at: the
\* length of the trace when it was called.
MwFrame(k, action) ==
  [NoFrame EXCEPT !.op = "middleware", !.pc = "middleware", !.action = action,
                  !.layer = k, !.at = Len(log)]

\* applyMiddleware while it evaluates middleware(middlewareAPI) for
\* middleware k (part_002:77); clean: no api.dispatch call was made so far.
SetupFrame(k) ==
  [NoFrame EXCEPT !.op = "applyMiddleware", !.pc = "setup", !.layer = k]

\* part_002:66-83: the dispatch variable still holds the throwing function.
Constructing == \E j \in 1..Len(stack) : stack[j].op = "applyMiddleware"

\* User code that holds the store is running: outside any call, or a listener.
InUserCode == IF stack = << >> THEN TRUE ELSE Top.pc = "inListener"

\* The enhancer has returned the store, or none was used.
Usable == ~Constructing /\ ~(ev.op = "applyMiddleware" /\ ev.res # "returned")

\* Function k of the composition is called with an action: a middleware's
\* innermost function, or store.dispatch.
CallLayer(k, action) ==
  IF k = BaseDispatch
  THEN dispatch(action)
  ELSE /\ stack' = Append(stack, MwFrame(k, action))
       /\ log' = IF Tracing THEN Append(log, In(k)) ELSE log
       /\ ev' = Event("middleware", "entered", action, k)
       /\ UNCHANGED <<storeVars, nDispatched, fixedVars>>

\* The enhanced store's dispatch is never taken from the composition.
enhancedDispatchStub(action) ==
  /\ Running
  /\ ev' = Event("dispatch", "threwConstructing", action, 0)
  /\ Quiet

\* part_002:83-88: the dispatch of the store the enhancer returns.
enhancedDispatch(action) ==
  /\ Running
  /\ nDispatched < MaxDispatches
  /\ CallLayer(Composed.outer, action)

\* middlewareAPI.dispatch is store.dispatch.
apiDispatchToBase(action) == dispatch(action)

\* middlewareAPI.dispatch is the next function of the middleware calling it.
apiDispatchToNext(action) ==
  IF Constructing
  THEN /\ ev' = Event("api.dispatch", "threwConstructing", action, 0)
       /\ stack' = [stack EXCEPT ![Len(stack)].clean = FALSE]
       /\ UNCHANGED <<storeVars, log, nDispatched, fixedVars>>
  ELSE CallLayer(Composed.next[Top.layer], action)

\* part_002:66-76, 83: middlewareAPI.dispatch calls what the dispatch variable
\* holds: the throwing function until part_002:83, the composition after.
apiDispatch(action) ==
  IF Constructing
  THEN /\ ev' = Event("api.dispatch", "threwConstructing", action, 0)
       /\ stack' = [stack EXCEPT ![Len(stack)].clean = FALSE]
       /\ UNCHANGED <<storeVars, log, nDispatched, fixedVars>>
  ELSE CallLayer(Composed.outer, action)

\* Middleware T was called with an action that is a function: it calls it.
RunsThunk(fr) == Middlewares[fr.layer] = "T" /\ fr.action = "thunk"

\* A middleware that was just called calls next(action).
MwForwards ==
  /\ stack # << >>
  /\ Top.op = "middleware"
  /\ ev.res = "entered"
  /\ ~RunsThunk(Top)
  /\ CallLayer(Composed.next[Top.layer], Top.action)

\* The function T was called with calls the dispatch it was handed, with INC.
ThunkDispatches ==
  /\ stack # << >>
  /\ Top.op = "middleware"
  /\ ev.res = "entered"
  /\ RunsThunk(Top)
  /\ apiDispatch("INC")

\* What a middleware returns: what next returned, or what the function it
\* called returned (nothing).
MwResult(fr) == IF RunsThunk(fr) THEN "undefined" ELSE ev.arg

\* The call a middleware made has returned: the middleware returns.
MwReturns ==
  /\ stack # << >>
  /\ Top.op = "middleware"
  /\ ev.res = "returned"
  /\ stack' = Pop(stack)
  /\ log' = IF Tracing THEN Append(log, Out(Top.layer)) ELSE log
  /\ ev' = Over(Top, "returned", MwResult(Top))
  /\ UNCHANGED <<storeVars, nDispatched, fixedVars>>

\* The call a middleware made has thrown: the middleware does not catch it.
MwPropagates ==
  /\ stack # << >>
  /\ Top.op = "middleware"
  /\ Threw(ev)
  /\ stack' = Pop(stack)
  /\ ev' = Over(Top, ev.res, Top.action)
  /\ UNCHANGED <<storeVars, log, nDispatched, fixedVars>>

\* The enhancer applyMiddleware(...)(createStore)(reducer, preloadedState) has
\* been called and has created the store (part_002:65).
InitEnhancer(m) ==
  /\ mode = m
  /\ currentReducer = "up"
  /\ preloadedState \in {Undefined, 1}
  /\ currentState = Reducer(currentReducer, preloadedState, "INIT")
  /\ currentListeners = 1
  /\ nextListeners = 1
  /\ isDispatching = FALSE
  /\ heap = [a \in ArrIds |-> << >>]
  /\ subs = << >>
  /\ stack = << >>
  /\ log = << >>
  /\ nDispatched = 0
  /\ args = NoArgs
  /\ composition = NoComposition
  /\ combined = NoCombined
  /\ ev = Event("applyMiddleware", "called", "", 0)

\* part_002:66-77: the enhancer starts to set the middlewares up; with none
\* it returns the store at once (part_002:83-88).
applyMiddleware ==
  /\ ev.op = "applyMiddleware"
  /\ ev.res = "called"
  /\ IF Middlewares = << >>
     THEN ev' = Event("applyMiddleware", "returned", "", 0) /\ Quiet
     ELSE /\ stack' = <<SetupFrame(1)>>
          /\ ev' = Event("middleware", "setup", Middlewares[1], 1)
          /\ UNCHANGED <<storeVars, log, nDispatched, fixedVars>>

\* A middleware calls api.dispatch while it is set up.
SetupDispatches ==
  /\ stack # << >>
  /\ Top.op = "applyMiddleware"
  /\ apiDispatch("INC")

\* part_002:77-88: middleware(middlewareAPI) returns; the next middleware is
\* set up, or, after the last, the chain is composed and the store returned.
SetupReturns ==
  /\ stack # << >>
  /\ Top.op = "applyMiddleware"
  /\ IF Top.layer < Len(Middlewares)
     THEN /\ stack' = [stack EXCEPT ![Len(stack)].layer = @ + 1]
          /\ ev' = Event("middleware", "setup", Middlewares[Top.layer + 1], Top.layer + 1)
     ELSE /\ stack' = Pop(stack)
          /\ ev' = Over(Top, "returned", "")
  /\ UNCHANGED <<storeVars, log, nDispatched, fixedVars>>

\* part_002:77: middleware(middlewareAPI) throws (what api.dispatch threw, or
\* an error of its own); nothing catches it in the enhancer.
SetupThrows ==
  /\ stack # << >>
  /\ Top.op = "applyMiddleware"
  /\ stack' = Pop(stack)
  /\ ev' = Over(Top, IF Threw(ev) THEN ev.res ELSE "threwSetup", "")
  /\ UNCHANGED <<storeVars, log, nDispatched, fixedVars>>

-----------------------------------------------------------------------------
(* The store that applyMiddleware returns, from its creation on *)

\* The store object the enhancer builds and returns: part_002:85-88.
EnhancedStore == "enhancedStore"

\* The dispatch property of a store object, as a function of the composition:
\* store.ts:628 for the store createStore built, part_002:83-88 for the
\* enhancer's.
StoreDispatch(s) == IF s = EnhancedStore THEN Composed.outer ELSE BaseDispatch

\* The enhancer applyMiddleware(A, B)(createStore)(reducer, preloadedState)
\* has called createStore (part_002:65), which has set its locals
\* (store.ts:383-387).
InitApply ==
  /\ mode = "apply"
  /\ currentReducer = "up"
  /\ preloadedState \in {Undefined, 1}
  /\ currentState = preloadedState
  /\ currentListeners = 1
  /\ nextListeners = 1
  /\ isDispatching = FALSE
  /\ heap = [a \in ArrIds |-> << >>]
  /\ subs = << >>
  /\ stack = << >>
  /\ log = << >>
  /\ nDispatched = 0
  /\ args = NoArgs
  /\ composition = NoComposition
  /\ combined = NoCombined
  /\ ev = Event("createStore", "called", "", 0)

\* part_002:65-88: createStore has returned the store; the middlewares are set
\* up (they call nothing here), the chain is composed and the enhancer
\* returns its own store object.
applyMiddlewareReturns ==
  /\ mode = "apply"
  /\ ev.op = "createStore"
  /\ ev.res = "returned"
  /\ ev' = Event("applyMiddleware", "returned", EnhancedStore, 0)
  /\ Quiet

\* User code holds the store the enhancer returned.
EnhancedHeld == InUserCode /\ log # << >> /\ ev.op # "createStore"

\* The enhancer wraps replaceReducer so that REPLACE enters the chain.
enhancedReplaceReducerThroughChain(nextReducer) ==
  /\ Running
  /\ nDispatched < MaxDispatches
  /\ currentReducer' = nextReducer
  /\ stack' = Append(stack, MwFrame(Composed.outer, "REPLACE"))
  /\ log' = Append(log, In(Composed.outer))
  /\ ev' = Event("middleware", "entered", "REPLACE", Composed.outer)
  /\ UNCHANGED <<currentState, currentListeners, nextListeners, isDispatching,
                 heap, subs, nDispatched, fixedVars>>

\* part_002:85-88: the enhancer's store object spreads the store createStore
\* built, so its replaceReducer is that store's (store.ts:552-571).
enhancedReplaceReducer(nextReducer) == replaceReducer(nextReducer)

-----------------------------------------------------------------------------
(* Calls of combineReducers and of the reducer it returns *)

InitCombine ==
  /\ mode = "combine"
  /\ currentReducer = "up"
  /\ preloadedState = Undefined
  /\ currentState = preloadedState
  /\ currentListeners = 1
  /\ nextListeners = 1
  /\ isDispatching = FALSE
  /\ heap = [a \in ArrIds |-> << >>]
  /\ subs = << >>
  /\ stack = << >>
  /\ log = << >>
  /\ nDispatched = 0
  /\ args = NoArgs
  /\ composition = NoComposition
  /\ \E reducers \in [{Keys[1], Keys[2]} -> SliceKinds] :
        combined = NotCombined(reducers)
  /\ ev = Event("combineReducers", "called", "", 0)

\* combineReducers.ts:124-160: the shape error, if any, is caught and kept.
combineReducers ==
  /\ combined.phase = "start"
  /\ combined' = [combined EXCEPT !.phase = "made",
                                  !.keys = finalReducerKeys(combined.reducers),
                                  !.error = assertReducerShape(combined.reducers)]
  /\ ev' = Event("combineReducers", "returned", "", 0)
  /\ UNCHANGED <<storeVars, stack, log, nDispatched, preloadedState, mode, args,
                 composition>>

\* The combined reducer is called with a state and an action of this type.
CallCombination(caller, input, type) ==
  /\ combined.phase = "made"
  /\ LET r == combination(combined, input, type)
     IN  /\ combined' = [combined EXCEPT !.caller = caller, !.input = input,
                                         !.type = type, !.out = r.out,
                                         !.next = r.next, !.calls = r.calls]
         /\ ev' = Event(caller, IF r.out \in ThrowResults THEN r.out ELSE "returned",
                         type, 0)
  /\ UNCHANGED <<storeVars, stack, log, nDispatched, preloadedState, mode, args,
                 composition>>

\* User code calls the combined reducer.
combinationCalled ==
  \E input \in StateInputs, type \in {"INIT", "INC", "UNKNOWN"} :
    CallCombination("combination", input, type)

\* store.ts:625 with store.ts:508-532: createStore(combined, preloadedState)
\* calls the reducer with the preloaded state and INIT; what the reducer throws
\* leaves createStore, what it returns (next) is the state of the new store.
createStoreCombined ==
  \E input \in StateInputs : CallCombination("createStore", input, "INIT")

\* What combineReducers returns for the given reducers object
\* (combineReducers.ts:124-160).
Made(reducers) ==
  [NotCombined(reducers) EXCEPT !.phase = "made",
                                !.keys = finalReducerKeys(reducers),
                                !.error = assertReducerShape(reducers)]

\* createStore(combineReducers({a: count, b}), preloadedState) has returned,
\* b being a reducer that returns undefined on INC, or one that never does
\* (store.ts:383-387 and the INIT dispatch of store.ts:625).
InitThrowCombined ==
  /\ mode = "throwc"
  /\ currentReducer = Combined
  /\ \E b \in {"drop", "keep"} :
        combined = Made([k \in {Keys[1], Keys[2]} |-> IF k = Keys[1] THEN "count" ELSE b])
  /\ preloadedState \in {NoState, [k \in {Keys[1], Keys[2]} |-> IF k = Keys[1] THEN 1 ELSE 0]}
  /\ currentState = combination(combined, preloadedState, "INIT").next
  /\ currentListeners = 1
  /\ nextListeners = 1
  /\ isDispatching = FALSE
  /\ heap = [a \in ArrIds |-> << >>]
  /\ subs = << >>
  /\ stack = << >>
  /\ log = << >>
  /\ nDispatched = 0
  /\ args = NoArgs
  /\ composition = NoComposition
  /\ ev = NoEvent

-----------------------------------------------------------------------------
(* Specifications: the runs of each kind of user code *)

Next ==
  \/ subscribe("f")
  \/ \E k \in 1..Len(subs) : unsubscribe(k)
  \/ dispatch("INC")
  \/ ReducerReturns
  \/ ListenerReturns
  \/ ListenerThrows

NextReduce ==
  \/ subscribe("f")
  \/ dispatch("INC")
  \/ replaceReducer("down")
  \/ ReducerReturns
  \/ ReducerThrows
  \/ ListenerReturns
  \/ ListenerThrows

NextLists ==
  \/ \E listener \in Fns : subscribe(listener)
  \/ \E k \in 1..Len(subs) : unsubscribe(k)
  \/ dispatch("UNKNOWN")
  \/ ReducerReturns
  \/ ListenerReturns
  \/ ListenerThrows

NextGuard ==
  \/ getState
  \/ \E listener \in {"f", NotAFunction} : subscribe(listener)
  \/ \E k \in 1..Len(subs) : unsubscribe(k)
  \/ \E action \in {"INC"} \cup RejectedActions : dispatch(action)
  \/ \E nextReducer \in {"down", NotAFunction} : replaceReducer(nextReducer)
  \/ ReducerReturns
  \/ ReducerThrows
  \/ ListenerReturns
  \/ ListenerThrows

\* The reducer user code replaces the current one by.
OtherReducer == CHOOSE r \in Reducers : r # currentReducer

NextReplace ==
  \/ subscribe("f")
  \/ dispatch("INC")
  \/ replaceReducer(OtherReducer)
  \/ ReducerReturns
  \/ ReducerThrows
  \/ ListenerReturns

NextCreate ==
  \/ createStore
  \/ StoreReturned /\ subscribe("f")
  \/ StoreReturned /\ \E k \in 1..Len(subs) : unsubscribe(k)
  \/ StoreReturned /\ dispatch("INC")
  \/ ReducerReturns
  \/ ReducerThrows
  \/ ListenerReturns

NextMw ==
  \/ InUserCode /\ subscribe("f")
  \/ InUserCode /\ \E action \in PlainActions : enhancedDispatch(action)
  \/ MwForwards
  \/ MwReturns
  \/ ReducerReturns
  \/ ListenerReturns

NextThunk ==
  \/ InUserCode /\ subscribe("f")
  \/ InUserCode /\ \E action \in {"INC", "thunk"} : enhancedDispatch(action)
  \/ MwForwards
  \/ ThunkDispatches
  \/ MwReturns
  \/ MwPropagates
  \/ ReducerReturns
  \/ ListenerReturns
  \/ ListenerThrows

NextSetup ==
  \/ applyMiddleware
  \/ SetupDispatches
  \/ SetupReturns
  \/ SetupThrows
  \/ Usable /\ InUserCode /\ subscribe("f")
  \/ Usable /\ InUserCode /\ enhancedDispatch("INC")
  \/ MwForwards
  \/ MwReturns
  \/ ReducerReturns
  \/ ListenerReturns

NextCombine ==
  \/ combineReducers
  \/ combinationCalled
  \/ createStoreCombined

\* The store was created without a preloaded state.
InitObs == InitFor("obs") /\ preloadedState = Undefined

NextObs ==
  \/ UserRuns /\ NotYetObserving("f") /\ subscribe("f")
  \/ UserRuns /\ \E observer \in ObserveState \cup {NotAnObject} :
                   NotYetObserving(observer) /\ observableSubscribe(observer)
  \/ ObserverNextReturns
  \/ ObserverNextThrows
  \/ UserRuns /\ \E k \in 1..Len(subs) : unsubscribe(k)
  \/ UserRuns /\ dispatch("INC")
  \/ ReducerReturns
  \/ ReducerThrows
  \/ ~InNext /\ ListenerReturns
  \/ UserRuns /\ ListenerThrows

NextArgs ==
  \/ createStoreCalled
  \/ EnhancerCreatesStore
  \/ EnhancerReturns
  \/ EnhancerThrows
  \/ Held /\ subscribe("f")
  \/ Held /\ dispatch("INC")
  \/ ReducerReturns
  \/ ReducerThrows
  \/ ListenerReturns

NextApply ==
  \/ createStore
  \/ applyMiddlewareReturns
  \/ EnhancedHeld /\ subscribe("f")
  \/ EnhancedHeld /\ enhancedDispatch("INC")
  \/ EnhancedHeld /\ enhancedReplaceReducer(OtherReducer)
  \/ MwForwards
  \/ MwReturns
  \/ ReducerReturns
  \/ ListenerReturns

NextFlag ==
  \/ getState
  \/ subscribe("f")
  \/ dispatch("INC")
  \/ ReducerReturns
  \/ ReducerThrows
  \/ ListenerReturns

\* The reducer call in progress returns, or throws.
ReducerCallReturns ==
  /\ stack # << >>
  /\ MayReturn(Top.reducer, currentState, Top.action)
  /\ ReducerReturns

ReducerCallThrows ==
  /\ stack # << >>
  /\ MayThrow(Top.reducer, currentState, Top.action)
  /\ ReducerThrows

NextThrow ==
  \/ getState
  \/ subscribe("f")
  \/ \E k \in 1..Len(subs) : unsubscribe(k)
  \/ \E action \in PlainActions : dispatch(action)
  \/ ReducerCallReturns
  \/ ReducerCallThrows
  \/ ListenerReturns

NextCompose ==
  \/ composeCalled
  \/ composedCalled

Spec == InitFor("nest") /\ [][Next]_vars
SpecCompose == InitCompose /\ [][NextCompose]_vars
SpecArgs == InitArgs /\ [][NextArgs]_vars
SpecApply == InitApply /\ [][NextApply]_vars
SpecFlag == InitFor("flag") /\ [][NextFlag]_vars
SpecThrow == (InitFor("throw") \/ InitThrowCombined) /\ [][NextThrow]_vars
SpecObs == InitObs /\ [][NextObs]_vars
SpecCombine == InitCombine /\ [][NextCombine]_vars
SpecMw == (InitFor("mw") \/ InitFor("mw0")) /\ [][NextMw]_vars
SpecThunk == InitFor("thunk") /\ [][NextThunk]_vars
SpecSetup == InitEnhancer("setup") /\ [][NextSetup]_vars
SpecCreate == InitCreate /\ [][NextCreate]_vars
SpecReplace == InitFor("replace") /\ [][NextReplace]_vars
SpecReduce == InitFor("reduce") /\ [][NextReduce]_vars
SpecLists == InitFor("lists") /\ [][NextLists]_vars
SpecSnap == InitFor("snap") /\ [][NextLists]_vars
SpecGuard == InitFor("guard") /\ [][NextGuard]_vars

-----------------------------------------------------------------------------
(* Properties *)

\* How many entries of arr are x.
Count(arr, x) == Cardinality({j \in 1..Len(arr) : arr[j] = x})

\* The subscriptions of function f among those of the set S.
SubsOf(S, f) == {k \in S : subs[k].listener = f}

\* A dispatch call (made by dispatch or replaceReducer) has just returned
\* normally; ev.fr is the call.
Returned == ev.res = "returned" /\ ev.fr.op # "none"

\* fr adopted a list holding one entry per subscription in force when it began.
AdoptedTheSubscriptions(fr) ==
  \A f \in Fns : Count(fr.snap, f) = Cardinality(SubsOf(fr.pre, f))

\* C1 (listener snapshot).  Whatever the listeners subscribe or unsubscribe
\* while a dispatch D notifies, D invokes the entries of the list it adopted, in
\* order, no more and no fewer: every dispatch in progress has invoked exactly
\* the first i + 1 entries of its snapshot, and a dispatch that returns has
\* invoked exactly its snapshot.  The snapshot of every dispatch, nested or
\* later, holds one entry per subscription in force when that dispatch began,
\* so it shows every change made before it.
C1_ListenerSnapshot ==
  /\ \A j \in 1..Len(stack) :
        stack[j].pc = "inListener" =>
          /\ stack[j].i < Len(stack[j].snap)
          /\ stack[j].called = SubSeq(stack[j].snap, 1, stack[j].i + 1)
          /\ AdoptedTheSubscriptions(stack[j])
  /\ Returned => /\ ev.fr.called = ev.fr.snap
                 /\ AdoptedTheSubscriptions(ev.fr)

\* A dispatch, nested in another, has invoked g although an earlier listener
\* of the same notification had unsubscribed g, while the f subscribed before
\* the outer dispatch began is the only entry of the pending list.
C1_Witness ==
  /\ Len(stack) = 2
  /\ Top.pc = "inListener"
  /\ Top.snap = <<"f", "g">>
  /\ Top.called = <<"f", "g">>
  /\ SubsOf(ActiveSubs, "g") = {}
  /\ heap[nextListeners] = <<"f">>

RECURSIVE Fold(_, _, _)
Fold(r, s, acts) ==
  IF acts = << >> THEN s ELSE Fold(r, Reducer(r, s, Head(acts)), Tail(acts))

\* A dispatch called by a listener has just returned normally.
NestedReturned == Returned /\ ev.fr.op = "dispatch" /\ stack # << >>

\* C3 as stated: right after a dispatch of a2 called by a listener returns, the
\* state is reducer(state before the call, a2).
C3_Original ==
  NestedReturned => currentState = Reducer(ev.fr.reducer, ev.fr.s0, ev.fr.action)

\* The state right after a nested dispatch fr returned: the reducer applied to
\* the state before the call and, in turn, the action of fr and those that the
\* listeners notified by fr dispatched.
C3_StateAfterNested ==
  NestedReturned =>
    /\ ev.fr.called = ev.fr.snap
    /\ currentState = Fold(ev.fr.reducer, ev.fr.s0, SubSeq(log, ev.fr.at, Len(log)))
    /\ Len(log) = ev.fr.at =>
         currentState = Reducer(ev.fr.reducer, ev.fr.s0, ev.fr.action)

\* The listener that called the nested dispatch returns: the outer dispatch
\* goes on with the next entry of its snapshot, in the state the nested call
\* left.
C3_OuterGoesOn ==
  (NestedReturned /\ ev'.op = "listener") =>
    /\ Len(stack') = Len(stack)
    /\ Top.i + 2 <= Len(Top.snap)
    /\ ev'.arg = Top.snap[Top.i + 2]
    /\ stack'[Len(stack)].called = Append(Top.called, ev'.arg)
    /\ currentState' = currentState
    /\ currentState' \in stack'[Len(stack)].seenAt[ev'.arg]

\* C3 (nested dispatch), amended.  Right after a dispatch of a2 called by a
\* listener returns, the state is reducer(state before the call, a2) when no
\* listener notified by that dispatch dispatched in turn, and in general the
\* fold of the reducer over a2 and the actions dispatched inside the call; the
\* listeners that follow in the outer snapshot are still invoked, the next one
\* in the state the nested call left.
C3_NestedDispatch == []C3_StateAfterNested /\ [][C3_OuterGoesOn]_vars

\* A listener's dispatch has returned, no dispatch having been nested in it,
\* and the outer dispatch has a listener left to invoke, which it had not
\* invoked when it committed its own state.
C3_Witness ==
  /\ NestedReturned
  /\ Len(log) = ev.fr.at
  /\ Len(stack) = 1
  /\ Top.i + 2 <= Len(Top.snap)
  /\ currentState # Reducer(Top.reducer, Top.s0, Top.action)

\* C4 as stated: no dispatch begins before the one before it has notified all
\* its listeners, so never is a dispatch in progress inside another.
C4_Original == Len(stack) <= 1

\* C4 (order of dispatches), amended.  The state transitions are totally
\* ordered: a dispatch begins only when every dispatch in progress has
\* committed its state and is notifying, so at most one reducer runs at a time,
\* the flag is set exactly while it runs, and the dispatches in progress
\* committed in the order they began.  A dispatch issued from a listener runs
\* to its end before the enclosing dispatch notifies its next listener.
C4_DispatchOrder ==
  /\ \A j \in 1..(Len(stack) - 1) :
        /\ stack[j].pc = "inListener"
        /\ stack[j + 1].pc = "inListener" => stack[j].at < stack[j + 1].at
        /\ stack[j].at <= Len(log)
  /\ isDispatching <=> (stack # << >> /\ Top.pc = "reducing")

\* The reducer of a dispatch issued from a listener is running.
C4_Witness ==
  /\ Len(stack) = 2
  /\ Top.pc = "reducing"
  /\ stack[1].i + 1 < Len(stack[1].snap)

\* This step is a call of getState, subscribe, an unsubscribe function or
\* dispatch made while a reducer is executing.
CallWhileDispatching ==
  /\ isDispatching
  /\ ev'.op \in {"getState", "subscribe", "unsubscribe", "dispatch"}
  /\ ev'.fr.op = "none"

\* The step changes neither the state, the reducer, the listener lists, the
\* subscriptions nor the dispatches in progress.
StoreUntouched == UNCHANGED <<storeVars, stack, log, nDispatched>>

\* C5 as stated: every one of these calls made while a reducer is executing
\* throws and changes nothing.
C5_Original == [][CallWhileDispatching => (Threw(ev') /\ StoreUntouched)]_vars

\* C5 (re-entrancy guard), amended.  While a reducer is executing, a call of
\* getState, subscribe or dispatch throws, and so does the first call of an
\* unsubscribe function; the call of an unsubscribe function that has already
\* removed its subscription returns silently.  None of these calls changes the
\* state, the reducer or either listener list.
C5_ReentrancyGuard ==
  [][CallWhileDispatching =>
       /\ StoreUntouched
       /\ Threw(ev') <=> ~(ev'.op = "unsubscribe" /\ ~subs[ev'.sub].isSubscribed)
       /\ (ev'.op \in {"getState", "unsubscribe"} /\ Threw(ev'))
            => ev'.res = "threwReentrant"]_vars

\* The reducer is executing and the unsubscribe function of a subscription in
\* force, called from it, has thrown.
C5_Witness ==
  /\ isDispatching
  /\ ev.op = "unsubscribe"
  /\ ev.res = "threwReentrant"
  /\ subs[ev.sub].isSubscribed
  /\ heap[nextListeners] # << >>

\* C8 (rejection at validation).  A dispatch of a value that is not a plain
\* object, or of a plain object whose type is undefined, throws the error of
\* its check; no reducer call is made (no dispatch is entered), the state, the
\* reducer and the listener lists are what they were, and no listener is
\* invoked.
C8_RejectedDispatch ==
  [][(ev'.op = "dispatch" /\ ev'.fr.op = "none" /\ ev'.arg \in RejectedActions) =>
       /\ ev'.res = IF ev'.arg = "noType" THEN "threwNoType" ELSE "threwNotPlain"
       /\ StoreUntouched]_vars

\* A dispatch of a plain object without a type has thrown, outside any
\* dispatch, in a store that has a listener.
C8_Witness ==
  /\ ev.op = "dispatch"
  /\ ev.res = "threwNoType"
  /\ ev.arg = "noType"
  /\ heap[nextListeners] # << >>
  /\ nDispatched = 0
  /\ stack = << >>

\* The state createStore leaves: the reducer applied to preloadedState and the
\* INIT action (store.ts:384, 625).
InitialState == Reducer("up", preloadedState, "INIT")

\* The state is the fold of the reducer the store was created with over the
\* actions reduced so far, as long as that reducer has not been replaced.
C6_StateIsFold == currentReducer = "up" => currentState = Fold("up", InitialState, log)

\* A step changes the state only when a reducer call returns, and then to the
\* result of one application of the reducer that was current when the dispatch
\* was called, to the state and the dispatched action.
C6_OneApplication ==
  IF Len(log') = Len(log) + 1
  THEN /\ currentState' = Reducer(Top.reducer, currentState, Top.action)
       /\ log'[Len(log')] = Top.action
  ELSE currentState' = currentState /\ log' = log

\* C6 (state is the fold of the reducer).  After construction and successful
\* dispatches a1..an, without replaceReducer, the state is
\* reducer(...reducer(reducer(preloadedState, INIT), a1)..., an); each reducer
\* call that returns replaces the state by one application of the reducer to
\* the state and the action, and no other step changes the state.
C6_Fold == []C6_StateIsFold /\ [][C6_OneApplication]_vars

\* Two dispatches, one nested in the other, were reduced by the reducer the
\* store was created with, from a preloaded state.
C6_Witness ==
  /\ currentReducer = "up"
  /\ preloadedState = 1
  /\ log = <<"INC", "INC">>
  /\ Len(stack) = 2
  /\ currentState = 0

\* C7 (dispatch returns its input).  A dispatch of a plain action with a
\* defined type, called while no reducer is executing, whose reducer and
\* listeners do not throw out of it, returns the action it was given,
\* whatever the listeners dispatched or replaced meanwhile.
C7_DispatchReturnsAction ==
  (Returned /\ ev.fr.op = "dispatch") =>
    /\ ev.arg = ev.fr.action
    /\ ev.arg \in PlainActions

\* A dispatch of INC returned INC although a listener replaced the reducer
\* during it, so that the action reduced last is another.
C7_Witness ==
  /\ Returned
  /\ ev.fr.op = "dispatch"
  /\ ev.arg = "INC"
  /\ Len(log) > ev.fr.at
  /\ log[Len(log)] = "REPLACE"

\* This step is a call of an unsubscribe function that had been called before
\* (and had not thrown).
RepeatedUnsubscribe == ev'.op = "unsubscribe" /\ ~subs[ev'.sub].isSubscribed

\* The pending list holds each function once per subscription of it in force.
OneEntryPerSubscription ==
  \A f \in Fns : Count(heap[nextListeners], f) = Cardinality(SubsOf(ActiveSubs, f))

\* C9 (unsubscribe idempotence).  The second and every later call of an
\* unsubscribe function returns without changing either listener list or any
\* subscription, also when the same function has been subscribed again
\* meanwhile: that subscription keeps its entry of the list, so the list always
\* holds one entry per subscription in force.
C9_UnsubscribeIdempotent ==
  /\ []OneEntryPerSubscription
  /\ [][RepeatedUnsubscribe => (ev'.res = "returned" /\ StoreUntouched)]_vars

\* An unsubscribe function was called again after the function it had removed
\* was subscribed anew, and the new subscription is the only entry of the list.
C9_Witness ==
  /\ ev.op = "unsubscribe"
  /\ ev.res = "returned"
  /\ ~subs[ev.sub].isSubscribed
  /\ \E k \in ActiveSubs : k > ev.sub /\ subs[k].listener = subs[ev.sub].listener
  /\ heap[nextListeners] = <<subs[ev.sub].listener>>

\* The functions of the subscriptions of S, in the order they were subscribed.
InRegistrationOrder(S) ==
  LET nth(j) == CHOOSE k \in S : Cardinality({m \in S : m < k}) = j - 1
  IN  [j \in 1..Cardinality(S) |-> subs[nth(j)].listener]

\* C10 (every subscription once, in registration order).  A dispatch that
\* returns has invoked the functions of the subscriptions in force when it
\* adopted the list, each once per subscription, in the order the
\* subscriptions were made.
C10_RegistrationOrder ==
  Returned => ev.fr.called = InRegistrationOrder(ev.fr.pre)

\* This step is a replaceReducer call that passed its checks: the reducer is
\* running on the REPLACE action.
ReplaceCall == ev'.op = "replaceReducer" /\ ev'.res = "reducing"

\* The call put its argument (the reducer that was not the current one) in
\* place and made one dispatch call, of REPLACE, which that reducer reduces.
C11_SwapThenDispatch ==
  ReplaceCall =>
    /\ currentReducer' # currentReducer
    /\ Len(stack') = Len(stack) + 1
    /\ nDispatched' = nDispatched + 1
    /\ stack'[Len(stack')].action = "REPLACE"
    /\ stack'[Len(stack')].reducer = currentReducer'

\* A dispatch is reduced by the reducer in place, and only a replaceReducer
\* call puts another in place.
C11_LaterDispatches ==
  /\ (ev'.op = "dispatch" /\ ev'.res = "reducing") =>
       stack'[Len(stack')].reducer = currentReducer
  /\ currentReducer' # currentReducer => ev'.op = "replaceReducer"

\* When the call returns, the REPLACE action has been reduced once by the new
\* reducer from the state before the call and the listeners of the adopted
\* list have each been notified once; the state is the one it left unless a
\* listener dispatched in turn.
C11_AtReturn ==
  (Returned /\ ev.fr.op = "replaceReducer") =>
    /\ ev.fr.action = "REPLACE"
    /\ log[ev.fr.at] = "REPLACE"
    /\ ev.fr.called = ev.fr.snap
    /\ AdoptedTheSubscriptions(ev.fr)
    /\ Len(log) = ev.fr.at => currentState = Reducer(ev.fr.reducer, ev.fr.s0, "REPLACE")

\* C11 (replaceReducer dispatches REPLACE).  A replaceReducer(next) call made
\* outside a reducer puts next in place and dispatches one REPLACE action
\* before it returns: the state becomes next(previousState, REPLACE), the
\* listeners are notified once for it, and every later dispatch is reduced by
\* next, until a later replaceReducer call puts another reducer in place.
C11_ReplaceReducer ==
  []C11_AtReturn /\ [][C11_SwapThenDispatch /\ C11_LaterDispatches]_vars

\* The reducer was replaced, a dispatch was reduced by the new reducer, and a
\* second replaceReducer call has returned after notifying a listener.
C11_Witness ==
  /\ Returned
  /\ ev.fr.op = "replaceReducer"
  /\ log = <<"REPLACE", "INC", "REPLACE">>
  /\ ev.fr.called = <<"f">>
  /\ currentReducer = "up"
  /\ preloadedState = 1
  /\ currentState = 0

\* createStore has just returned the store.
Constructed == ev.op = "createStore" /\ ev.res = "returned"

\* The store as createStore returns it: one reducer call made, of INIT on
\* preloadedState, no listener, the flag down.
C12_AfterConstruction ==
  Constructed =>
    /\ nDispatched = 1
    /\ log = <<"INIT">>
    /\ currentState = Reducer(currentReducer, preloadedState, "INIT")
    /\ ~isDispatching
    /\ currentListeners = nextListeners
    /\ heap = [a \in ArrIds |-> << >>]
    /\ subs = << >>
    /\ stack = << >>
    /\ ev.fr.action = "INIT"
    /\ ev.fr.called = << >>

\* INIT is reduced once, first, and no listener is ever invoked for it.
C12_InitOnce ==
  /\ \A j \in 1..Len(log) : log[j] = "INIT" <=> j = 1
  /\ \A j \in 1..Len(stack) :
        stack[j].action = "INIT" => (stack[j].pc = "reducing" /\ j = 1)
  /\ (ev.fr.op # "none" /\ ev.fr.action = "INIT") => ev.fr.called = << >>
  /\ subs # << >> => log # << >>

\* C12 (construction dispatches INIT once).  When createStore returns, the
\* store has called the reducer exactly once, getState() is
\* reducer(preloadedState, INIT), the listener list is empty and the flag is
\* false; no listener is ever notified of INIT.
C12_Construction == C12_AfterConstruction /\ C12_InitOnce

\* createStore returned a store for the reducer that counts down, given no
\* preloaded state.
C12_Witness ==
  /\ Constructed
  /\ currentReducer = "down"
  /\ preloadedState = Undefined
  /\ currentState = 2

\* A listener has just thrown out of the dispatch ev.fr.
ListenerThrew == ev.res = "threwListener"

\* The dispatch a listener threw out of had committed its state, had invoked
\* the listeners of its snapshot up to the one that threw and no other, and
\* has left the flag down.
C13_Aborted ==
  ListenerThrew =>
    /\ ~isDispatching
    /\ ev.fr.i < Len(ev.fr.snap)
    /\ ev.fr.called = SubSeq(ev.fr.snap, 1, ev.fr.i + 1)
    /\ ev.fr.at >= 1
    /\ Len(log) >= ev.fr.at
    /\ log[ev.fr.at] = ev.fr.action
    /\ currentState = Fold(ev.fr.reducer, ev.fr.s0, SubSeq(log, ev.fr.at, Len(log)))

\* Every dispatch, also one that follows a throwing listener, adopts the whole
\* pending list and, when it returns, has invoked all of it.
C13_StillUsable ==
  /\ \A j \in 1..Len(stack) :
        stack[j].pc = "inListener" => AdoptedTheSubscriptions(stack[j])
  /\ Returned => (ev.fr.called = ev.fr.snap /\ AdoptedTheSubscriptions(ev.fr))

\* The throw leaves dispatch (the call is over) and changes neither the state
\* nor the lists.
C13_Propagates ==
  ev'.res = "threwListener" =>
    /\ stack # << >>
    /\ Len(stack') = Len(stack) - 1
    /\ ev'.fr.op = Top.op
    /\ UNCHANGED <<currentState, currentReducer, currentListeners, nextListeners,
                   isDispatching, subs, log, nDispatched>>
    /\ heap'[nextListeners] = heap[nextListeners]

\* C13 (a listener throws).  The exception leaves dispatch; the listeners
\* after the throwing one in the snapshot are not invoked by that dispatch; the
\* state the reducer computed stays committed; the flag is false and later
\* dispatches adopt and notify the whole pending list.
C13_ListenerThrows == [](C13_Aborted /\ C13_StillUsable) /\ [][C13_Propagates]_vars

\* The first of two listeners threw out of an outermost dispatch, which had
\* changed the state; the second one was not invoked.
C13_Witness ==
  /\ ListenerThrew
  /\ stack = << >>
  /\ Len(ev.fr.snap) = 2
  /\ ev.fr.called = <<"f">>
  /\ currentState # ev.fr.s0
  /\ Len(log) = ev.fr.at

-----------------------------------------------------------------------------
(* Middleware *)

\* The entries of a trace that the outermost call it starts with made itself or
\* through the calls it forwarded to: those of the dispatches listeners made
\* meanwhile (each from its own A-in to its A-out) are left out.
RECURSIVE OwnTrace(_, _)
OwnTrace(s, depth) ==
  IF s = << >> THEN << >>
  ELSE LET h == Head(s)
           inner == IF h = In(1) THEN depth + 1 ELSE depth
           after == IF h = Out(1) THEN depth - 1 ELSE inner
       IN  (IF inner = 1 THEN <<h>> ELSE << >>) \o OwnTrace(Tail(s), after)

\* The outermost middleware has just returned from a dispatch.
ChainReturned ==
  /\ ev.op = "middleware"
  /\ ev.res = "returned"
  /\ ev.fr.layer = 1

\* C14: with applyMiddleware(A, B, C) and recording middlewares, a dispatch on
\* the enhanced store has, when it returns, produced the trace A-in, B-in,
\* C-in, the reducer call of the base dispatch for its action, C-out, B-out,
\* A-out: the base dispatch was reached exactly once.
C14_MiddlewareOrdering ==
  (mode = "mw" /\ ChainReturned) =>
    OwnTrace(SubSeq(log, ev.fr.at + 1, Len(log)), 0)
      = <<"A-in", "B-in", "C-in", ev.fr.action, "C-out", "B-out", "A-out">>

\* A dispatch made by a listener during another dispatch has returned, and so
\* has the outer one after it.
C14_Witness ==
  /\ mode = "mw"
  /\ ChainReturned
  /\ ev.fr.at = 0
  /\ Len(log) = 14

\* The enhancer has thrown: no store was returned.
ConstructionThrew == ev.op = "applyMiddleware" /\ Threw(ev)

\* C15 as stated: a store construction during which a middleware called
\* api.dispatch does not return a store.
C15_Original ==
  (ev.op = "applyMiddleware" /\ ev.res = "returned") => ev.fr.clean

\* While the middlewares are set up, the only call that is not a middleware's
\* setup is api.dispatch: it throws "Dispatching while constructing your
\* middleware is not allowed" and leaves the store as it was.
C15_TrapThrows ==
  (Constructing /\ ev'.op \notin {"middleware", "applyMiddleware"}) =>
    /\ ev'.op = "api.dispatch"
    /\ ev'.res = "threwConstructing"
    /\ UNCHANGED <<storeVars, log, nDispatched>>

\* No reducer call is made while the middlewares are set up.
C15_NoReducerCall ==
  Constructing => nDispatched = 0 /\ ~isDispatching /\ Len(stack) = 1

\* The setup of a middleware that ends while that error is in flight ends in
\* one of two ways: the middleware caught it and returned, or the enhancer
\* throws that error.
C15_Propagates ==
  (Constructing /\ ev.res = "threwConstructing" /\ ~Constructing') =>
    \/ ev'.res = "returned" /\ ev'.fr.layer = Len(Middlewares)
    \/ ev'.res = "threwConstructing" /\ ConstructionThrew'

\* Once the enhancer has thrown there is no store to call.
C15_NoStore == ConstructionThrew => UNCHANGED vars

\* C15: a call of api.dispatch made by a middleware while it is set up throws
\* "Dispatching while constructing your middleware is not allowed" and no
\* reducer call results from it; unless the middleware catches that error
\* itself, the store construction through the enhancer throws it.
C15_SetupTrap ==
  []C15_NoReducerCall /\ [][C15_TrapThrows /\ C15_Propagates /\ C15_NoStore]_vars

\* The second middleware called api.dispatch during its setup and did not catch
\* the error: the construction has thrown it.
C15_Witness ==
  /\ ConstructionThrew
  /\ ev.res = "threwConstructing"
  /\ ev.fr.layer = 2
  /\ ~ev.fr.clean

\* Middleware T is running an action that is a function, which has not yet
\* called the dispatch it was handed.
ThunkRunning ==
  IF stack = << >> THEN FALSE
  ELSE Top.op = "middleware" /\ RunsThunk(Top) /\ ev.res = "entered"

\* The call api.dispatch(INC) made at action time enters the outermost
\* middleware with INC.
C16_EntersOutermost ==
  ThunkRunning =>
    /\ Len(stack') = Len(stack) + 1
    /\ stack'[Len(stack')].op = "middleware"
    /\ stack'[Len(stack')].layer = 1
    /\ stack'[Len(stack')].action = "INC"
    /\ UNCHANGED <<storeVars, nDispatched>>

\* The dispatch of an action that is a function has returned.
ThunkReturned == mode = "thunk" /\ ChainReturned /\ ev.fr.action = "thunk"

\* When the dispatch of an action function returns, INC has reached the
\* reducer; with no listener subscribed the trace of the call is A-in, T-in,
\* then the whole chain for INC, then T-out, A-out.
C16_ReachesReducer ==
  ThunkReturned =>
    /\ \E j \in (ev.fr.at + 1)..Len(log) : log[j] = "INC"
    /\ subs = << >> =>
         SubSeq(log, ev.fr.at + 1, Len(log))
           = <<"A-in", "T-in", "A-in", "T-in", "C-in", "INC",
               "C-out", "T-out", "A-out", "T-out", "A-out">>

\* C16: a call of api.dispatch(x) made by a middleware at action time goes to
\* the composed dispatch, so x passes the whole chain from the outermost
\* middleware on; a middleware that calls an action function with api.dispatch
\* thereby makes the plain action the function dispatches reach the reducer.
C16_Trampoline == []C16_ReachesReducer /\ [][C16_EntersOutermost]_vars

\* An action function was dispatched on a store whose state was 0; the INC it
\* dispatched through api.dispatch has been reduced.
C16_Witness ==
  /\ ThunkReturned
  /\ stack = << >>
  /\ log = <<"A-in", "T-in", "A-in", "T-in", "C-in", "INC",
             "C-out", "T-out", "A-out", "T-out", "A-out">>
  /\ currentState = InitialState + 1

\* What the base store sees of a run of the enhanced store: the actions reduced
\* and the dispatch calls in progress.
BaseEntries(s) == SelectSeq(s, LAMBDA x : x \in PlainActions)
BaseFrames(stk) == SelectSeq(stk, LAMBDA fr : fr.op # "middleware")

\* A step of a middleware (it is called, or returns) changes nothing of what
\* the base store holds or does.
C17_MiddlewareInvisible ==
  ev'.op = "middleware" =>
    /\ UNCHANGED <<storeVars, nDispatched>>
    /\ BaseEntries(log') = BaseEntries(log)
    /\ BaseFrames(stack') = BaseFrames(stack)

\* Every call in progress of a function of the chain was made by the function
\* before it, with the same action; the outermost by user code.  So every base
\* dispatch in progress stands for one dispatch on the enhanced store, of the
\* same action.
C17_OneBaseDispatch ==
  \A j \in 1..Len(stack) :
    LET k == IF stack[j].op = "middleware" THEN stack[j].layer ELSE BaseDispatch
    IN  IF k = Composed.outer
        THEN j = 1 \/ stack[j - 1].pc = "inListener"
        ELSE /\ j > 1
             /\ stack[j - 1].op = "middleware"
             /\ stack[j - 1].layer = k - 1
             /\ stack[j - 1].action = stack[j].action

\* A dispatch on the enhanced store has just returned.
EnhancedReturned ==
  /\ ev.res = "returned"
  /\ IF Middlewares = << >> THEN ev.op = "dispatch" ELSE ChainReturned

\* What the base store guarantees holds of the enhanced store: the state is the
\* fold of the reducer over the actions dispatched, no call throws, a dispatch
\* returns its action, and a base dispatch that returns has invoked exactly the
\* listeners of the list it adopted, one per subscription in force.
C17_SameResults ==
  /\ currentState = Fold("up", InitialState, BaseEntries(log))
  /\ ~Threw(ev)
  /\ EnhancedReturned => ev.arg = ev.fr.action /\ ev.arg \in PlainActions
  /\ (ev.op = "dispatch" /\ ev.res = "returned") =>
       /\ ev.fr.called = ev.fr.snap
       /\ AdoptedTheSubscriptions(ev.fr)
       /\ log[ev.fr.at] = ev.fr.action

\* C17: a store enhanced with middlewares that only observe and forward every
\* action to next (or with no middleware) behaves as the base store: every
\* dispatch of a plain action makes one base dispatch of that action, the
\* middleware steps change nothing of the store, and the state, the listeners
\* invoked and the value dispatch returns are those of the base store.
C17_Equivalence ==
  [](C17_OneBaseDispatch /\ C17_SameResults) /\ [][C17_MiddlewareInvisible]_vars

\* Through three middlewares, INC was dispatched and the listener dispatched
\* UNKNOWN during it; both have returned.
C17_Witness ==
  /\ mode = "mw"
  /\ EnhancedReturned
  /\ stack = << >>
  /\ ev.fr.at = 0
  /\ ev.arg = "INC"
  /\ BaseEntries(log) = <<"INC", "UNKNOWN">>
  /\ currentState = InitialState + 1

-----------------------------------------------------------------------------
(* combineReducers *)

\* The combined reducer has just been called, by user code or by createStore.
CombinationCalled == combined.phase = "made" /\ combined.caller # ""

\* The state the last call of the combined reducer worked on.
CalledState == IF combined.input = NoState THEN << >> ELSE combined.input

\* In the last call every slice reducer was called and returned, or would have
\* returned, the slice it was given.
EverySliceUnchanged ==
  \A j \in 1..Len(combined.keys) :
    LET s == Get(CalledState, combined.keys[j])
    IN  SliceReducer(combined.reducers[combined.keys[j]], s, combined.type) = s

\* C18 as stated: whenever every slice reducer returns the slice it received,
\* the combined reducer returns its state argument itself.
C18_Original ==
  (CombinationCalled /\ combined.error = "none" /\ EverySliceUnchanged) =>
    combined.out = "same" /\ combined.next = combined.input

\* C18: for every state record and action, if every slice reducer returns the
\* slice it received, none of these is undefined, and the state has as many
\* keys as there are slice reducers, the combined reducer returns its state
\* argument itself, not a new record.
C18_PassThrough ==
  ( /\ CombinationCalled
    /\ combined.error = "none"
    /\ combined.input # NoState
    /\ EverySliceUnchanged
    /\ \A j \in 1..Len(combined.keys) : Get(CalledState, combined.keys[j]) # Undefined
    /\ Cardinality(DOMAIN combined.input) = Len(combined.keys) ) =>
    combined.out = "same" /\ combined.next = combined.input

\* A counting and a keeping slice reducer were called with UNKNOWN and the
\* combined reducer returned the record it was given.
C18_Witness ==
  /\ CombinationCalled
  /\ combined.reducers = [k \in {"a", "b"} |-> IF k = "a" THEN "count" ELSE "keep"]
  /\ combined.input = [k \in {"a", "b"} |-> IF k = "a" THEN 1 ELSE 0]
  /\ combined.type = "UNKNOWN"
  /\ combined.calls = 2
  /\ combined.out = "same"

\* A function-valued entry of the reducers object returns undefined for
\* (undefined, INIT) or for (undefined, a random type).
Misshapen(reducers) ==
  \E k \in DOMAIN reducers :
    /\ reducers[k] # "notFn"
    /\ \/ SliceReducer(reducers[k], Undefined, "INIT") = Undefined
       \/ SliceReducer(reducers[k], Undefined, "PROBE") = Undefined

\* C19: if a function-valued slice reducer returns undefined for
\* (undefined, INIT) or for (undefined, a random type), combineReducers returns
\* all the same; every later call of the combined reducer, whatever the state
\* and the action, throws the error kept, before any slice reducer is called,
\* and so does createStore with that reducer, on its INIT dispatch.
C19_DeferredShapeError ==
  /\ ev.op = "combineReducers" => ev.res \in {"called", "returned"}
  /\ (combined.phase = "made" /\ Misshapen(combined.reducers)) =>
       /\ combined.error # "none"
       /\ CombinationCalled =>
            /\ combined.out = "threwShape"
            /\ ev.res = "threwShape"
            /\ combined.calls = 0

\* createStore was given a preloaded record and a combined reducer whose
\* second slice reducer returns undefined when probed: it threw.
C19_Witness ==
  /\ combined.reducers = [k \in {"a", "b"} |-> IF k = "a" THEN "keep" ELSE "noProbe"]
  /\ combined.caller = "createStore"
  /\ combined.input = [k \in {"a", "b"} |-> 0]
  /\ ev.op = "createStore"
  /\ ev.res = "threwShape"

-----------------------------------------------------------------------------
(* observable *)

\* The observer with next was subscribed when the dispatch call fr was made.
ObservingAtStart(fr) == \E k \in fr.pre : subs[k].listener = "o"

\* A dispatch whose reducer returned is over: it returned, or a listener threw.
CommittedOver == ev.op = "dispatch" /\ ev.res \in {"returned", "threwListener"}

\* C20 as stated: every committed dispatch made while the observer is
\* subscribed calls observer.next exactly once.
C20_Original ==
  (CommittedOver /\ ObservingAtStart(ev.fr)) => Count(ev.fr.called, "o") = 1

\* observable().subscribe calls observer.next only while no reducer runs,
\* hence with the state getState returns, and changes nothing before.
C20_FirstNext ==
  (ev'.op = "observable.subscribe" /\ ev'.res = "inNext") =>
    ~isDispatching /\ UNCHANGED <<storeVars, stack>>

\* observeState is registered only by the step that follows the first call of
\* observer.next, and that call is followed by nothing else than the
\* registration, unless it throws.
C20_ThenRegisters ==
  /\ (Len(subs') > Len(subs) /\ subs'[Len(subs')].listener = "o") =>
       InNext /\ ev.arg = "o"
  /\ InNext =>
       \/ ev'.op = "subscribe" /\ ev'.res = "returned" /\ Len(subs') = Len(subs) + 1
       \/ ev'.res = "threwObserver" /\ UNCHANGED <<storeVars, stack>>

\* A dispatch that returns has called observer.next once if the observer was
\* subscribed when it was called, and not at all otherwise; no dispatch calls
\* it twice.
C20_OncePerDispatch ==
  /\ \A j \in 1..Len(stack) : Count(stack[j].called, "o") <= 1
  /\ CommittedOver => Count(ev.fr.called, "o") <= 1
  /\ (ev.op = "dispatch" /\ ev.res = "returned") =>
       Count(ev.fr.called, "o") = IF ObservingAtStart(ev.fr) THEN 1 ELSE 0

\* observer.next is called while no reducer runs, so with the current state;
\* that is the result of the dispatch notifying it unless a reducer call was
\* made since (by a listener notified before it).
C20_NextGetsState ==
  (ev'.op = "listener" /\ ev'.res = "invoked" /\ ev'.arg = "o") =>
    /\ ~isDispatching'
    /\ Len(log') = stack'[Len(stack')].at =>
         currentState' = Reducer(stack'[Len(stack')].reducer, stack'[Len(stack')].s0,
                                 stack'[Len(stack')].action)

\* A dispatch that notifies the observer was called while it was subscribed: a
\* dispatch called after unsubscribe does not notify it.
C20_NotAfterUnsubscribe ==
  \A j \in 1..Len(stack) :
    Count(stack[j].snap, "o") > 0 => ObservingAtStart(stack[j])

\* An observer without next is accepted wherever subscribe is, and while its
\* observeState is invoked nothing happens but the notification going on.
C20_NoNext ==
  /\ (ev'.op = "subscribe" /\ ev'.arg = "n") =>
       ev'.res = IF isDispatching THEN "threwReentrant" ELSE "returned"
  /\ RunningListener = "n" =>
       /\ ev'.op \in {"listener", "dispatch"}
       /\ UNCHANGED <<currentState, currentReducer, nextListeners, isDispatching,
                      subs, log, nDispatched>>

\* C20: observable().subscribe(observer), called while no reducer runs with an
\* observer that has next, calls observer.next once with the current state and
\* then registers; every later dispatch that returns calls it exactly once,
\* with the state current at that moment, and a dispatch out of which a
\* listener throws at most once; no dispatch called after unsubscribe calls it;
\* an observer without next is accepted and never called.
C20_ObservableBridge ==
  /\ [](C20_OncePerDispatch /\ C20_NotAfterUnsubscribe)
  /\ [][C20_FirstNext /\ C20_ThenRegisters /\ C20_NextGetsState /\ C20_NoNext]_vars

\* f and then the observer were subscribed; during a dispatch f unsubscribed
\* the observer and dispatched again: the nested dispatch did not call
\* observer.next, the outer one, in progress at the time, did.
C20_Witness ==
  /\ ev.op = "dispatch"
  /\ ev.res = "returned"
  /\ stack = << >>
  /\ ev.fr.called = <<"f", "o">>
  /\ ev.fr.at = 1
  /\ Len(log) = 2
  /\ Len(subs) = 2
  /\ ~subs[2].isSubscribed

-----------------------------------------------------------------------------
(* createStore and its enhancer *)

\* The ways to supply an enhancer: as the third argument, or as a function in
\* the place of the preloaded state with no third argument.  A call with two
\* functions among the second to fourth arguments is rejected (store.ts:345-354).
EnhancerIsThird ==
  args.third = "function" /\ args.second # "function" /\ args.fourth # "function"
EnhancerIsSecond == args.second = "function" /\ args.third = "undefined"

\* createStore, called with an enhancer, calls it with the reducer and the
\* preloaded state (undefined when the enhancer came second) and does nothing
\* else: no state, no INIT, no check of the reducer.
C21_Delegates ==
  (ev.op = "createStore" /\ ev.res = "called" /\ (EnhancerIsThird \/ EnhancerIsSecond)) =>
    /\ stack' = <<EnhancerFrame(args.reducer,
                                IF EnhancerIsSecond THEN "undefined" ELSE args.second)>>
    /\ ev'.op = "enhancer"
    /\ UNCHANGED <<storeVars, log, nDispatched>>

\* When the enhancer is over so is createStore, with the same outcome: the
\* value the enhancer returned, or what it threw.
C21_ReturnsThat ==
  (stack # << >> /\ stack' = << >> /\ stack[1].op = "enhancer") =>
    /\ ev'.op = "createStore"
    /\ \/ ev'.res = "returned" /\ ev'.arg = EnhancerResult
       \/ Threw(ev')
    /\ UNCHANGED <<storeVars, log, nDispatched>>

\* When the enhancer starts to run no reducer call was made and nothing was
\* reduced; a construction whose enhancer returns something that is no store
\* has reduced no INIT.
C21_NothingByItself ==
  /\ (Len(stack) = 1 /\ ev.op = "enhancer") =>
       log = << >> /\ nDispatched = 0 /\ currentState = preloadedState
  /\ (ev.op = "createStore" /\ ev.res = "returned" /\ ev.arg = "other") =>
       log = << >> /\ currentState = preloadedState

\* C21: when an enhancer is supplied, as the third argument or as a function in
\* the second place with no third argument, createStore returns exactly
\* enhancer(createStore)(reducer, preloadedState), preloadedState being
\* undefined in the second case, and by itself creates no state, dispatches no
\* INIT and does not validate the reducer.
C21_EnhancerDelegation ==
  []C21_NothingByItself /\ [][C21_Delegates /\ C21_ReturnsThat]_vars

\* createStore(notAFunction, enhancer) has returned what the enhancer returned,
\* which made no store.
C21_Witness ==
  /\ args.reducer = NotAFunction
  /\ args.second = "function"
  /\ args.third = "undefined"
  /\ ev.op = "createStore"
  /\ ev.res = "returned"
  /\ ev.arg = "other"
  /\ ev.fr.action = "undefined"

-----------------------------------------------------------------------------
(* compose *)

\* The names of the functions compose was given, first to last, and reversed.
GivenNames == [j \in 1..Len(composition.funcs) |-> composition.funcs[j].name]
GivenNamesReversed ==
  [j \in 1..Len(composition.funcs) |->
     composition.funcs[Len(composition.funcs) + 1 - j].name]

\* C22: compose() returns the identity; compose(f) returns f itself, no
\* closure around it; compose(f1, ..., fn)(x) is f1(f2(...fn(x))), each function
\* being called exactly once, the last one first.
C22_ComposerLaws ==
  /\ composition.phase # "start" =>
       /\ Len(composition.funcs) = 0 => composition.fn = Identity
       /\ Len(composition.funcs) = 1 => composition.fn = composition.funcs[1]
  /\ composition.phase = "applied" =>
       /\ composition.val = GivenNames \o <<composition.arg>>
       /\ composition.trace = GivenNamesReversed

\* compose(f, g, h)(x) was evaluated: h, g and f were called, in this order.
C22_Witness ==
  /\ composition.phase = "applied"
  /\ composition.funcs = <<Given("f"), Given("g"), Given("h")>>
  /\ composition.val = <<"f", "g", "h", "x">>
  /\ composition.trace = <<"h", "g", "f">>

\* The store object user code holds: the enhancer's, where one was used.
HeldStore ==
  IF mode \in {"mw", "mw0", "thunk", "setup", "apply"} THEN EnhancedStore ELSE Store

\* C23 (replaceReducer's result).  A replaceReducer call that returns, returns
\* the store object it was invoked on, also on a store created through
\* applyMiddleware: the dispatch of the store returned is the dispatch of the
\* store the caller holds.
C23_SameStore ==
  (ev.op = "replaceReducer" /\ ev.res = "returned") =>
    /\ ev.arg = HeldStore
    /\ StoreDispatch(ev.arg) = StoreDispatch(HeldStore)

\* An action reached the chain or the reducer from inside middleware k.
FromMiddleware(j) == j > 1 /\ log[j - 1] \in {In(k) : k \in 1..Len(Middlewares)}

\* The actions the store dispatches by itself: store.ts:625 and 569.
Synthetic == {"INIT", "REPLACE"}

\* No middleware is handed INIT or REPLACE, and the reducer is handed them by
\* no middleware.
C29_MiddlewareSeesNone ==
  /\ \A j \in 1..Len(stack) : stack[j].op = "middleware" => stack[j].action \notin Synthetic
  /\ (ev.op = "middleware" /\ ev.res = "entered") => ev.arg \notin Synthetic
  /\ \A j \in 1..Len(log) : log[j] \in Synthetic => ~FromMiddleware(j)
  /\ \A j \in 1..Len(log) : log[j] \in PlainActions => FromMiddleware(j)

\* The reducer is handed INIT before the store exists, and REPLACE by every
\* replaceReducer call that returns; that call has notified the listeners.
C29_ReducerAndListenersDo ==
  /\ log # << >> => log[1] = "INIT"
  /\ (ev.op = "replaceReducer" /\ ev.res = "returned") =>
       /\ log[ev.fr.at] = "REPLACE"
       /\ ev.fr.called = ev.fr.snap
       /\ AdoptedTheSubscriptions(ev.fr)

\* C29 (synthetic actions bypass middleware).  On a store created through
\* applyMiddleware, the INIT action of the construction and the REPLACE action
\* of replaceReducer go to the base dispatch: no middleware is invoked with
\* either, while the reducer receives both and the listeners are notified
\* for REPLACE.
C29_SyntheticBypass == C29_MiddlewareSeesNone /\ C29_ReducerAndListenersDo

\* A replaceReducer call on the enhanced store returned after it notified
\* listener f, after an INC went through both middlewares: the trace holds
\* INIT and REPLACE with no middleware entry before them.
C29_Witness ==
  /\ mode = "apply"
  /\ ev.op = "replaceReducer"
  /\ ev.res = "returned"
  /\ ev.fr.called = <<"f">>
  /\ log = <<"INIT", "A-in", "B-in", "INC", "B-out", "A-out", "REPLACE">>

\* The dispatch calls that are in their notification loop.
Iterating == {j \in 1..Len(stack) : stack[j].pc = "inListener"}

\* The array every notification loop walks still holds what it held when the
\* dispatch adopted it.
C24_SnapshotIntact ==
  \A j \in Iterating : heap[stack[j].listeners] = stack[j].snap

\* A subscribe or unsubscribe call that changes the listeners writes to the
\* pending list, which no dispatch in progress walks, and leaves the array of
\* every dispatch in progress as it was.
C24_WritesElsewhere ==
  subs' # subs =>
    /\ heap'[nextListeners'] # heap[nextListeners]
    /\ \A j \in Iterating :
         /\ stack[j].listeners # nextListeners'
         /\ heap'[stack[j].listeners] = heap[stack[j].listeners]

\* C24 (no in-place mutation of a snapshot).  An array that a dispatch in
\* progress is iterating is never changed: every push and splice made by
\* subscribe and unsubscribe goes to an array that no dispatch in progress, at
\* any depth, iterates, also after an unsubscribe has set the current list to
\* null and after a nested dispatch has adopted the pending list.
C24_NoInPlaceMutation == []C24_SnapshotIntact /\ [][C24_WritesElsewhere]_vars

\* Inside a dispatch nested in another, which had adopted the pending list
\* that a listener of the outer one wrote, a listener has unsubscribed: the
\* current list is null and the pending list is a third array, while both
\* loops walk their own.
C24_Witness ==
  /\ Len(stack) = 2
  /\ Iterating = {1, 2}
  /\ stack[1].listeners # stack[2].listeners
  /\ stack[1].snap # stack[2].snap
  /\ currentListeners = Null
  /\ nextListeners \notin {stack[1].listeners, stack[2].listeners}
  /\ heap[nextListeners] # stack[2].snap
  /\ ev.op = "unsubscribe"
  /\ ev.res = "removed"

\* The innermost call in progress is a reducer call made by dispatch.
ReducerExecuting == IF stack = << >> THEN FALSE ELSE Top.pc = "reducing"

\* The flag is set exactly while a reducer call made by dispatch executes; so
\* it is clear when a listener is invoked, when a dispatch has returned and
\* when a dispatch has thrown what its reducer threw.
C25_FlagIffReducing ==
  /\ isDispatching <=> ReducerExecuting
  /\ (ev.op = "listener" /\ ev.res = "invoked") => ~isDispatching
  /\ Returned => ~isDispatching
  /\ ev.res = "threwReducer" => ~isDispatching

\* The dispatch called next after a reducer threw is not rejected as
\* re-entrant; a dispatch rejected inside a reducer leaves the flag set and
\* the reducer call in progress, and a getState call made next in that reducer
\* call is rejected.
C25_AfterThrowAndRejection ==
  /\ (ev.res = "threwReducer" /\ ev'.op = "dispatch" /\ ev'.fr.op = "none") =>
       ev'.res = "reducing"
  /\ (ev'.op = "dispatch" /\ ev'.res = "threwReentrant") =>
       /\ isDispatching /\ isDispatching'
       /\ stack' = stack
       /\ ReducerExecuting'
  /\ (ev.op = "dispatch" /\ ev.res = "threwReentrant" /\ ev'.op = "getState") =>
       ev'.res = "threwReentrant"

\* C25 (dispatching flag lifecycle).  The dispatching flag is true exactly
\* while a reducer call made by dispatch executes: it is false whenever a
\* listener is invoked, after dispatch returns and after dispatch throws
\* because the reducer threw, so that the next dispatch is not rejected as
\* re-entrant; a re-entrant dispatch rejected inside the reducer does not clear
\* it, so getState stays forbidden for the rest of that reducer call.
C25_FlagLifecycle == []C25_FlagIffReducing /\ [][C25_AfterThrowAndRejection]_vars

\* After the reducer of a first dispatch threw (the state is still the initial
\* one), the reducer of a second dispatch has called dispatch, which was
\* rejected, and then getState, which was rejected too.
C25_Witness ==
  /\ mode = "flag"
  /\ nDispatched = 2
  /\ Len(stack) = 1
  /\ ReducerExecuting
  /\ currentState = Reducer(currentReducer, preloadedState, "INIT")
  /\ ev.op = "getState"
  /\ ev.res = "threwReentrant"
  /\ isDispatching

\* The reducer call in progress is one that throws: the combined reducer's
\* when a slice reducer returns undefined for the action.
CombinedThrows ==
  /\ ReducerExecuting
  /\ Top.reducer = Combined
  /\ combination(combined, currentState, Top.action).out = "threwUndefined"

\* The step in which a dispatch throws what its reducer threw: the call is
\* over, the state is the one from before the dispatch, no listener was
\* invoked and the two listener lists are the same arrays with the same
\* entries.
C26_ThrowLeavesStore ==
  ev'.res = "threwReducer" =>
    /\ ReducerExecuting
    /\ stack' = Pop(stack)
    /\ ev'.op = Top.op
    /\ currentState' = Top.s0
    /\ currentState' = currentState
    /\ ev'.fr.called = << >>
    /\ currentListeners' = currentListeners
    /\ nextListeners' = nextListeners
    /\ heap'[nextListeners] = heap[nextListeners]
    /\ currentListeners # Null => heap'[currentListeners] = heap[currentListeners]
    /\ subs' = subs

\* The combined reducer's call ends in no other way when a slice reducer
\* returns undefined, and the getState call made right after a dispatch threw
\* returns the state from before that dispatch.
C26_ThrowsAndReads ==
  /\ (CombinedThrows /\ stack' # stack) => ev'.res = "threwReducer"
  /\ (ev.res = "threwReducer" /\ ev'.op = "getState") =>
       /\ ev'.res = "returned"
       /\ GetStateResult' = ev.fr.s0

\* C26 (reducer throws).  When the reducer throws during a dispatch (the
\* combined reducer included, which throws because a slice reducer returned
\* undefined), the exception leaves the dispatch, getState afterwards returns
\* the state from before the dispatch, no listener is notified and the current
\* and pending listener lists are unchanged.
C26_ReducerThrows == [][C26_ThrowLeavesStore /\ C26_ThrowsAndReads]_vars

\* A dispatch of INC has thrown what the combined reducer threw, slice b
\* having returned undefined after slice a had counted: the state is the
\* record from before, and a listener subscribed since the store was created
\* is in the pending list only.
C26_Witness ==
  /\ mode = "throwc"
  /\ ev.op = "dispatch"
  /\ ev.res = "threwReducer"
  /\ ev.fr.reducer = Combined
  /\ ev.fr.action = "INC"
  /\ stack = << >>
  /\ combination(combined, ev.fr.s0, "INC").out = "threwUndefined"
  /\ combination(combined, ev.fr.s0, "INC").calls = 2
  /\ currentState = [k \in {Keys[1], Keys[2]} |-> IF k = Keys[1] THEN 1 ELSE 0]
  /\ currentListeners # nextListeners
  /\ currentListeners # Null
  /\ heap[nextListeners] = <<"f">>

\* The pending list holds each function as many times as there are
\* subscriptions of it whose unsubscribe has not taken effect.
C27_CountsMatch ==
  \A f \in Fns :
    Count(heap[nextListeners], f) =
      Cardinality({k \in 1..Len(subs) : subs[k].listener = f /\ subs[k].isSubscribed})

\* The pending list arr without its entry at position p (from 1).
Without(arr, p) ==
  [j \in 1..(Len(arr) - 1) |-> IF j < p THEN arr[j] ELSE arr[j + 1]]

\* The first call of an unsubscribe function that takes effect finds its
\* listener in the pending list and leaves that list without the earliest
\* entry holding it: one occurrence less of it, and every other entry kept.
C27_RemovesEarliest ==
  (ev'.op = "unsubscribe" /\ ev'.res = "removed") =>
    LET arr == heap[nextListeners]
        f   == subs[ev'.sub].listener
    IN  /\ subs[ev'.sub].isSubscribed
        /\ \E p \in 1..Len(arr) :
             /\ arr[p] = f
             /\ \A q \in 1..(p - 1) : arr[q] # f
             /\ heap'[nextListeners'] = Without(arr, p)
        /\ Count(heap'[nextListeners'], f) = Count(arr, f) - 1
        /\ \A g \in Fns \ {f} : Count(heap'[nextListeners'], g) = Count(arr, g)

\* C27 (pending list is a multiset of the active subscriptions).  For each
\* listener function, the pending list holds as many occurrences of it as
\* there are subscriptions of it whose unsubscribe has not yet taken effect;
\* so the first call of an unsubscribe function always finds its listener (the
\* index is never -1) and removes exactly one occurrence of that function,
\* the earliest in the list, and never another listener.
C27_PendingMultiset == []C27_CountsMatch /\ [][C27_RemovesEarliest]_vars

\* With f, g and f subscribed in this order, the unsubscribe function of the
\* third subscription was called first: the list lost its first entry.
C27_Witness ==
  /\ Len(subs) = 3
  /\ ev.op = "unsubscribe"
  /\ ev.res = "removed"
  /\ ev.sub = 3
  /\ ActiveSubs = {1, 2}
  /\ subs[1].listener = "f"
  /\ subs[2].listener = "g"
  /\ heap[nextListeners] = <<"g", "f">>

\* This step is a replaceReducer call that threw the re-entrancy error.
ReplaceRejected == ev'.op = "replaceReducer" /\ ev'.res = "threwReentrant"

\* A replaceReducer call made while a reducer executes is rejected, and only
\* such a call is; it has put the other reducer in place and done nothing
\* else: no dispatch call was entered, no action reduced, no listener invoked,
\* and the state and the listener lists are as they were.
C28_SwapThenThrow ==
  /\ (ev'.op = "replaceReducer" /\ ev'.fr.op = "none") => (ReplaceRejected <=> ReducerExecuting)
  /\ ReplaceRejected =>
       /\ currentReducer' # currentReducer
       /\ currentReducer' = OtherReducer
       /\ stack' = stack
       /\ log' = log
       /\ nDispatched' = nDispatched
       /\ isDispatching'
       /\ UNCHANGED <<currentState, currentListeners, nextListeners, heap, subs>>

\* The reducer in place changes in replaceReducer calls only, so the swap of a
\* rejected call stays; every dispatch call entered uses the reducer in place.
C28_SwapStays ==
  /\ currentReducer' # currentReducer => (ev'.op = "replaceReducer" /\ ev'.fr.op = "none")
  /\ ev'.res = "reducing" => stack'[Len(stack')].reducer = currentReducer'

\* C28 (replaceReducer inside a reducer).  replaceReducer(next) called while a
\* reducer executes has no guard of its own: it swaps the current reducer and
\* its internal dispatch then throws the re-entrancy error.  The call throws
\* with no REPLACE action processed and no listener notified, the swap is not
\* rolled back, and later dispatches use next.
C28_ReplaceInsideReducer == [][C28_SwapThenThrow /\ C28_SwapStays]_vars

\* Two INC were dispatched on a store created with the reducer that counts up;
\* the second one, reduced by the reducer that counts down, has returned, and
\* no REPLACE was ever reduced: the reducer was swapped by a replaceReducer
\* call that the reducer of the first dispatch made, and that threw.
C28_Witness ==
  /\ mode = "replace"
  /\ Returned
  /\ ev.fr.op = "dispatch"
  /\ ev.fr.reducer = "down"
  /\ currentReducer = "down"
  /\ nDispatched = 2
  /\ log = <<"INC", "INC">>
  /\ stack = << >>

=============================================================================
